---- MODULE Spec2Model ----
(***************************************************************************)
(* State-machine model of the split-criterion engine of hypertree:         *)
(*   src/hypertrees/tree/_nd_criterion.pyx              (bipartite / GSO)   *)
(*   src/hypertrees/tree/_semisupervised_criterion.pyx  (composite / SS)    *)
(*                                                                         *)
(* Arrays are 0-based functions, as in the source.  C doubles are modelled  *)
(* as exact rationals <<num, den>> (den > 0, lowest terms); <<0, 0>> is the *)
(* non-finite result of a division by zero.  Targets and weights are small  *)
(* integers, so every sum the code accumulates is exact in a double too.    *)
(***************************************************************************)
EXTENDS Integers, Sequences, FiniteSets, TLC

(***************************************************************************)
(* Bounds of the model.                                                    *)
(***************************************************************************)
\* supervision weights are the multiples of 1/SupDen
SupDen == 2
\* depth to which the Builder grows a tree below its root
MaxDepth == 1
\* updates that move pos backwards, per sweep of an axis criterion
MaxBackward == 1
\* shape parameters (n_outputs, n_features, n_samples) range over 0..MaxShape
MaxShape == 2

(***************************************************************************)
(* Double arithmetic, exact.                                               *)
(***************************************************************************)
Abs(x) == IF x < 0 THEN -x ELSE x

RECURSIVE Gcd(_, _)
Gcd(a, b) == IF b = 0 THEN a ELSE Gcd(b, a % b)

NaN == <<0, 0>>

Norm(n, d) ==
    IF d = 0 THEN NaN
    ELSE LET g == Gcd(Abs(n), Abs(d))
             s == IF d < 0 THEN -1 ELSE 1
         IN  <<(s * n) \div g, (s * d) \div g>>

\* an integer-valued double
R(n) == <<n, 1>>

IsNaN(a) == a[2] = 0

RAdd(a, b) ==
    IF IsNaN(a) \/ IsNaN(b) THEN NaN
    ELSE Norm(a[1] * b[2] + b[1] * a[2], a[2] * b[2])

RSub(a, b) ==
    IF IsNaN(a) \/ IsNaN(b) THEN NaN
    ELSE Norm(a[1] * b[2] - b[1] * a[2], a[2] * b[2])

RMul(a, b) ==
    IF IsNaN(a) \/ IsNaN(b) THEN NaN
    ELSE Norm(a[1] * b[1], a[2] * b[2])

RDiv(a, b) ==
    IF IsNaN(a) \/ IsNaN(b) \/ b[1] = 0 THEN NaN
    ELSE Norm(a[1] * b[2], a[2] * b[1])

RECURSIVE SumOver(_, _)
\* sum of f over the finite set S of its domain
SumOver(f, S) ==
    IF S = {} THEN 0
    ELSE LET x == CHOOSE x \in S : TRUE
         IN  f[x] + SumOver(f, S \ {x})

(***************************************************************************)
(* Sample weights: None, or one double per entity.                         *)
(***************************************************************************)
NoWeights(n) == [none |-> TRUE, w |-> [i \in 0..(n - 1) |-> 1]]

Weights(f) == [none |-> FALSE, w |-> f]

\* the weight the loops use: w stays 1.0 when sample_weight is None
WeightOf(wt, i) == IF wt.none THEN 1 ELSE wt.w[i]

(***************************************************************************)
(* The 1D regression criterion the engine drives (sklearn's                *)
(* RegressionCriterion / MSE; spec section 4.1).  A criterion is a record   *)
(* of its scalar statistics; the target y, the sample weights and the      *)
(* index array it was bound to are buffers shared with its owner and are    *)
(* passed to the operators that read them.  y[i] is the vector of the       *)
(* n_outputs targets of sample i.                                          *)
(***************************************************************************)
Outputs(c) == 0..(c.n_outputs - 1)

\* a freshly constructed criterion: statistics zeroed, bound to no node
RC_new(n_outputs, n_samples) ==
    [n_outputs |-> n_outputs, n_samples |-> n_samples,
     start |-> 0, end |-> 0, pos |-> 0, n_node_samples |-> 0,
     weighted_n_samples |-> 0, weighted_n_node_samples |-> 0,
     weighted_n_left |-> 0, weighted_n_right |-> 0,
     sq_sum_total |-> 0,
     sum_total |-> [k \in 0..(n_outputs - 1) |-> 0],
     sum_left  |-> [k \in 0..(n_outputs - 1) |-> 0],
     sum_right |-> [k \in 0..(n_outputs - 1) |-> 0]]

\* sum of w * y[i, k] over the samples at positions a .. b-1 of idx
WSum(y, wt, idx, a, b, k) ==
    SumOver([p \in a..(b - 1) |-> WeightOf(wt, idx[p]) * y[idx[p]][k]],
            a..(b - 1))

\* sum of w * y[i, k]^2 over the samples at positions a .. b-1, all outputs
WSqSum(y, wt, idx, a, b, K) ==
    SumOver([p \in a..(b - 1) |->
                WeightOf(wt, idx[p]) *
                SumOver([k \in K |-> y[idx[p]][k] * y[idx[p]][k]], K)],
            a..(b - 1))

\* sum of the weights of the samples at positions a .. b-1
WCount(wt, idx, a, b) ==
    SumOver([p \in a..(b - 1) |-> WeightOf(wt, idx[p])], a..(b - 1))

\* reset(): pos = start, everything in the right child
RC_reset(c) ==
    [c EXCEPT !.sum_left = [k \in Outputs(c) |-> 0],
              !.sum_right = c.sum_total,
              !.weighted_n_left = 0,
              !.weighted_n_right = c.weighted_n_node_samples,
              !.pos = c.start]

\* reverse_reset(): pos = end, everything in the left child
RC_reverse_reset(c) ==
    [c EXCEPT !.sum_right = [k \in Outputs(c) |-> 0],
              !.sum_left = c.sum_total,
              !.weighted_n_right = 0,
              !.weighted_n_left = c.weighted_n_node_samples,
              !.pos = c.end]

\* update(new_pos): move samples[pos:new_pos] to the left child, from the
\* cheaper side; there is no range check on new_pos
RC_update(c, y, wt, idx, new_pos) ==
    LET forward == (new_pos - c.pos) <= (c.end - new_pos)
        left == IF forward
                THEN [k \in Outputs(c) |->
                        c.sum_left[k] + WSum(y, wt, idx, c.pos, new_pos, k)]
                ELSE [k \in Outputs(c) |->
                        c.sum_total[k] - WSum(y, wt, idx, new_pos, c.end, k)]
        wl == IF forward
              THEN c.weighted_n_left + WCount(wt, idx, c.pos, new_pos)
              ELSE c.weighted_n_node_samples
                     - WCount(wt, idx, new_pos, c.end)
    IN  [c EXCEPT !.sum_left = left,
                  !.sum_right = [k \in Outputs(c) |-> c.sum_total[k] - left[k]],
                  !.weighted_n_left = wl,
                  !.weighted_n_right = c.weighted_n_node_samples - wl,
                  !.pos = new_pos]

\* init(): statistics of samples[start:end], then reset()
RC_init(c, y, wt, weighted_n_samples, idx, start, end) ==
    RC_reset(
      [c EXCEPT !.start = start, !.end = end,
                !.n_node_samples = end - start,
                !.weighted_n_samples = weighted_n_samples,
                !.weighted_n_node_samples = WCount(wt, idx, start, end),
                !.sq_sum_total = WSqSum(y, wt, idx, start, end, Outputs(c)),
                !.sum_total = [k \in Outputs(c) |->
                                 WSum(y, wt, idx, start, end, k)]])

\* sum over the outputs of (sum[k] / weight)^2
SqMeans(c, sum, weight) ==
    LET sq == [k \in Outputs(c) |-> sum[k] * sum[k]]
    IN  RDiv(R(SumOver(sq, Outputs(c))), R(weight * weight))

\* MSE.node_impurity(): variance form over the node
RC_node_impurity(c) ==
    RDiv(RSub(RDiv(R(c.sq_sum_total), R(c.weighted_n_node_samples)),
              SqMeans(c, c.sum_total, c.weighted_n_node_samples)),
         R(c.n_outputs))

\* MSE.children_impurity(): variance form over [start,pos) and [pos,end)
RC_children_impurity(c, y, wt, idx) ==
    LET sq_left == WSqSum(y, wt, idx, c.start, c.pos, Outputs(c))
        sq_right == c.sq_sum_total - sq_left
    IN  [left |-> RDiv(RSub(RDiv(R(sq_left), R(c.weighted_n_left)),
                            SqMeans(c, c.sum_left, c.weighted_n_left)),
                       R(c.n_outputs)),
         right |-> RDiv(RSub(RDiv(R(sq_right), R(c.weighted_n_right)),
                             SqMeans(c, c.sum_right, c.weighted_n_right)),
                        R(c.n_outputs))]

\* Criterion.impurity_improvement(): weighted impurity decrease
RC_impurity_improvement(c, parent, left, right) ==
    LET wn == R(c.weighted_n_node_samples)
    IN  RMul(RDiv(wn, R(c.weighted_n_samples)),
             RSub(RSub(parent,
                       RMul(RDiv(R(c.weighted_n_right), wn), right)),
                  RMul(RDiv(R(c.weighted_n_left), wn), left)))

\* node_value(): the weighted mean of each output over the node
RC_node_value(c) ==
    [k \in Outputs(c) |-> RDiv(R(c.sum_total[k]), R(c.weighted_n_node_samples))]

(***************************************************************************)
(* RegressionCriterionGSO: the bipartite criterion over a node rectangle.  *)
(* d is the Builder's dataset [n_rows, n_cols, y, row_weights, col_weights] *)
(* which init() stores by reference; g is the criterion's own state.       *)
(***************************************************************************)
Pair(x, y) == [a \in {0, 1} |-> IF a = 0 THEN x ELSE y]

\* total weight of an axis, as the Builder passes it to init()
TotalWeight(wt, n) == SumOver([i \in 0..(n - 1) |-> WeightOf(wt, i)], 0..(n - 1))

\* __cinit__/__init__: defaults; sum_total and the marginal buffers are
\* np.empty, i.e. hold whatever was in memory (garbage)
GSO_new(n_rows, n_cols, garbage) ==
    [n_rows |-> n_rows, n_cols |-> n_cols,
     n_outputs_rows |-> 1, n_outputs_cols |-> 1, n_outputs |-> 2,
     start |-> Pair(0, 0), end |-> Pair(0, 0),
     row_indices |-> [p \in 0..(n_rows - 1) |-> p],
     col_indices |-> [q \in 0..(n_cols - 1) |-> q],
     n_node_rows |-> 0, n_node_cols |-> 0,
     weighted_n_rows |-> 0, weighted_n_cols |-> 0, weighted_n_samples |-> 0,
     weighted_n_node_rows |-> 0, weighted_n_node_cols |-> 0,
     weighted_n_node_samples |-> 0,
     sq_sum_total |-> 0, sum_total |-> garbage,
     y_row_sums |-> [i \in 0..(n_rows - 1) |-> garbage],
     y_col_sums |-> [j \in 0..(n_cols - 1) |-> garbage]]

\* the positions of the node along each axis
RowRange(start, end) == start[0]..(end[0] - 1)

ColRange(start, end) == start[1]..(end[1] - 1)

\* RowMarginal with the column weight wj left out of the row sums
RowMarginal_unweighted(d, col_indices, start, end, i) ==
    SumOver([q \in ColRange(start, end) |-> d.y[i][col_indices[q]]],
            ColRange(start, end))

\* init(), the loops of lines 186-216: sum of wj * y[i, j] over the node's
\* columns, written to y_row_sums[i] for every row i of the node
RowMarginal(d, col_indices, start, end, i) ==
    SumOver([q \in ColRange(start, end) |->
                WeightOf(d.col_weights, col_indices[q]) * d.y[i][col_indices[q]]],
            ColRange(start, end))

\* sum of wi * y[i, j] over the node's rows, written to y_col_sums[j]
ColMarginal(d, row_indices, start, end, j) ==
    SumOver([p \in RowRange(start, end) |->
                WeightOf(d.row_weights, row_indices[p]) * d.y[row_indices[p]][j]],
            RowRange(start, end))

\* RectSum reading y at the positions themselves, not at the indexed entities
RectSum_byPosition(d, row_indices, col_indices, rows, cols, sq) ==
    SumOver([p \in rows |->
               WeightOf(d.row_weights, row_indices[p]) *
               SumOver([q \in cols |->
                          LET y_ij == d.y[p][q]
                          IN  WeightOf(d.col_weights, col_indices[q]) * y_ij *
                              (IF sq THEN y_ij ELSE 1)],
                       cols)],
            rows)

\* sum of wi * wj * y[i, j] * f(y[i, j]) over a rectangle of positions;
\* sq = FALSE gives the sum of the targets, sq = TRUE of their squares
RectSum(d, row_indices, col_indices, rows, cols, sq) ==
    SumOver([p \in rows |->
               WeightOf(d.row_weights, row_indices[p]) *
               SumOver([q \in cols |->
                          LET y_ij == d.y[row_indices[p]][col_indices[q]]
                          IN  WeightOf(d.col_weights, col_indices[q]) * y_ij *
                              (IF sq THEN y_ij ELSE 1)],
                       cols)],
            rows)

\* RegressionCriterionGSO.init(): the fields of the bipartite criterion
GSO_init(g, d, row_indices, col_indices, start, end) ==
    LET rows == RowRange(start, end)
        cols == ColRange(start, end)
        node_rows == {row_indices[p] : p \in rows}
        node_cols == {col_indices[q] : q \in cols}
        wn_rows == IF d.row_weights.none THEN end[0] - start[0]
                   ELSE WCount(d.row_weights, row_indices, start[0], end[0])
        \* the column weights are added up while the first row is visited
        wn_cols == IF d.col_weights.none THEN end[1] - start[1]
                   ELSE IF rows = {} THEN 0
                   ELSE WCount(d.col_weights, col_indices, start[1], end[1])
    IN  [g EXCEPT
           !.weighted_n_rows = TotalWeight(d.row_weights, d.n_rows),
           !.weighted_n_cols = TotalWeight(d.col_weights, d.n_cols),
           !.weighted_n_samples = TotalWeight(d.row_weights, d.n_rows)
                                    * TotalWeight(d.col_weights, d.n_cols),
           !.row_indices = row_indices,
           !.col_indices = col_indices,
           !.start = start,
           !.end = end,
           !.n_node_rows = end[0] - start[0],
           !.n_node_cols = end[1] - start[1],
           !.weighted_n_node_rows = wn_rows,
           !.weighted_n_node_cols = wn_cols,
           !.y_row_sums = [i \in DOMAIN g.y_row_sums |->
                             IF i \in node_rows
                             THEN RowMarginal(d, col_indices, start, end, i)
                             ELSE g.y_row_sums[i]],
           \* y_col_sums[j] is zeroed and filled only if there is a first row
           !.y_col_sums = [j \in DOMAIN g.y_col_sums |->
                             IF j \in node_cols /\ rows # {}
                             THEN ColMarginal(d, row_indices, start, end, j)
                             ELSE g.y_col_sums[j]],
           !.sum_total = RectSum(d, row_indices, col_indices, rows, cols, FALSE),
           !.sq_sum_total = RectSum(d, row_indices, col_indices, rows, cols, TRUE),
           !.weighted_n_node_samples = wn_rows * wn_cols]

\* InitChildCriterion without the final reset()
InitChildCriterion_noReset(g, c, a) ==
    [c EXCEPT !.start = a.start, !.end = a.end,
              !.n_node_samples = a.n_node_samples,
              !.weighted_n_samples = a.weighted_n_samples,
              !.weighted_n_node_samples = a.weighted_n_node_samples,
              !.sum_total = [k \in Outputs(c) |-> g.sum_total],
              !.sq_sum_total = g.sq_sum_total]

\* _init_child_criterion(): bind an axis criterion to its side of the node
\* (a = the keyword arguments of the call), hand it the shared 2D totals
\* sum_total / sq_sum_total of the bipartite criterion g, and reset() it
InitChildCriterion(g, c, a) ==
    RC_reset(
      [c EXCEPT !.start = a.start, !.end = a.end,
                !.n_node_samples = a.n_node_samples,
                !.weighted_n_samples = a.weighted_n_samples,
                !.weighted_n_node_samples = a.weighted_n_node_samples,
                !.sum_total = [k \in Outputs(c) |-> g.sum_total],
                !.sq_sum_total = g.sq_sum_total])

\* the two calls of _init_child_criterion at the end of init()
GSO_init_rows(g, c) ==
    InitChildCriterion(g, c,
        [start |-> g.start[0], end |-> g.end[0],
         n_node_samples |-> g.n_node_rows,
         weighted_n_samples |-> g.weighted_n_rows,
         weighted_n_node_samples |-> g.weighted_n_node_rows])

GSO_init_cols(g, c) ==
    InitChildCriterion(g, c,
        [start |-> g.start[1], end |-> g.end[1],
         n_node_samples |-> g.n_node_cols,
         weighted_n_samples |-> g.weighted_n_cols,
         weighted_n_node_samples |-> g.weighted_n_node_cols])

\* the buffers an axis criterion was bound to by _init_child_criterion
AxisY(g, axis) ==
    IF axis = 0 THEN [i \in DOMAIN g.y_row_sums |-> [k \in {0} |-> g.y_row_sums[i]]]
    ELSE [j \in DOMAIN g.y_col_sums |-> [k \in {0} |-> g.y_col_sums[j]]]

AxisWeights(d, axis) == IF axis = 0 THEN d.row_weights ELSE d.col_weights

AxisIndices(g, axis) == IF axis = 0 THEN g.row_indices ELSE g.col_indices

\* node_value(): dest[0]
GSO_node_value(g) == RDiv(R(g.sum_total), R(g.weighted_n_node_samples))

\* node_impurity with the mean not squared
GSO_node_impurity_meanNotSquared(g) ==
    RSub(RDiv(R(g.sq_sum_total), R(g.weighted_n_node_samples)),
         RDiv(R(g.sum_total), R(g.weighted_n_node_samples)))

\* SquaredErrorGSO.node_impurity()
GSO_node_impurity(g) ==
    RSub(RDiv(R(g.sq_sum_total), R(g.weighted_n_node_samples)),
         RMul(RDiv(R(g.sum_total), R(g.weighted_n_node_samples)),
              RDiv(R(g.sum_total), R(g.weighted_n_node_samples))))

\* children_impurity() with the axis criterion's 1D weights left as they are
GSO_children_impurity_axisWeights(g, d, c, axis) ==
    LET weighted_n_left == c.weighted_n_left
        weighted_n_right == c.weighted_n_right
        end == [g.end EXCEPT ![axis] = c.pos]
        sq_sum_left == RectSum(d, g.row_indices, g.col_indices,
                               RowRange(g.start, end), ColRange(g.start, end),
                               TRUE)
        sq_sum_right == g.sq_sum_total - sq_sum_left
    IN  [left |-> RDiv(RSub(R(sq_sum_left),
                            RDiv(R(c.sum_left[0] * c.sum_left[0]),
                                 R(weighted_n_left))),
                       R(weighted_n_left)),
         right |-> RDiv(RSub(R(sq_sum_right),
                             RDiv(R(c.sum_right[0] * c.sum_right[0]),
                                  R(weighted_n_right))),
                        R(weighted_n_right))]

\* SquaredErrorGSO.children_impurity(axis), axis in {0, 1}; c is the axis
\* criterion _get_criterion(axis) returned
GSO_children_impurity(g, d, c, axis) ==
    LET weighted_n_node_other ==
            IF axis = 0 THEN g.weighted_n_node_cols ELSE g.weighted_n_node_rows
        weighted_n_left == c.weighted_n_left * weighted_n_node_other
        weighted_n_right == c.weighted_n_right * weighted_n_node_other
        end == [g.end EXCEPT ![axis] = c.pos]
        sq_sum_left == RectSum(d, g.row_indices, g.col_indices,
                               RowRange(g.start, end), ColRange(g.start, end),
                               TRUE)
        sq_sum_right == g.sq_sum_total - sq_sum_left
    IN  [left |-> RDiv(RSub(R(sq_sum_left),
                            RDiv(R(c.sum_left[0] * c.sum_left[0]),
                                 R(weighted_n_left))),
                       R(weighted_n_left)),
         right |-> RDiv(RSub(R(sq_sum_right),
                             RDiv(R(c.sum_right[0] * c.sum_right[0]),
                                  R(weighted_n_right))),
                        R(weighted_n_right))]

\* impurity_improvement() returning the axis criterion's improvement as is
GSO_impurity_improvement_unscaled(g, c, impurity_parent, impurity_left, impurity_right, axis) ==
    RC_impurity_improvement(c, impurity_parent, impurity_left, impurity_right)

\* RegressionCriterionGSO.impurity_improvement(): the improvement of the
\* criterion c of axis, times the other axis's share of the total weight
GSO_impurity_improvement(g, c, impurity_parent, impurity_left, impurity_right, axis) ==
    LET imp == RC_impurity_improvement(c, impurity_parent, impurity_left,
                                       impurity_right)
    IN  IF axis = 0
        THEN RDiv(RMul(imp, R(g.weighted_n_node_cols)), R(g.weighted_n_cols))
        ELSE RDiv(RMul(imp, R(g.weighted_n_node_rows)), R(g.weighted_n_rows))

\* FriedmanGSO.impurity_improvement() returning the axis criterion's
\* improvement as is
FriedmanGSO_impurity_improvement_unscaled(g, c, impurity_parent, impurity_left, impurity_right, axis) ==
    RC_impurity_improvement(c, impurity_parent, impurity_left, impurity_right)

\* FriedmanGSO.impurity_improvement(): the improvement of the criterion c of
\* axis, over the other axis's node weight
FriedmanGSO_impurity_improvement(g, c, impurity_parent, impurity_left, impurity_right, axis) ==
    LET imp == RC_impurity_improvement(c, impurity_parent, impurity_left,
                                       impurity_right)
    IN  IF axis = 0
        THEN RDiv(imp, R(g.weighted_n_node_cols))
        ELSE RDiv(imp, R(g.weighted_n_node_rows))

(***************************************************************************)
(* SSCompositeCriterion and SingleFeatureSSCompositeCriterion.             *)
(* o is the composite criterion with its two sub-criteria nested in it;    *)
(* inp is the splitter's input [z, n_samples, n_cols, sample_weight,       *)
(* samples]: z = np.hstack([X, y]), the weights and the index array, all   *)
(* held by reference.  X, y and full_X are views of columns of z.          *)
(***************************************************************************)
\* comparison of two finite doubles
RLeq(a, b) == a[1] * b[2] <= b[1] * a[2]

\* the view z[:, lo:hi]
Cols(lo, hi) == [lo |-> lo, hi |-> hi]

\* the matrix a view shows
View(z, v) ==
    [i \in DOMAIN z |-> [k \in 0..(v.hi - v.lo - 1) |-> z[i][v.lo + k]]]

\* a criterion argument of __init__: None, a class (MSE), or an instance
CritNone == [kind |-> "none", obj |-> RC_new(0, 0)]

CritClass == [kind |-> "class", obj |-> RC_new(0, 0)]

CritInstance(c) == [kind |-> "instance", obj |-> c]

\* Python's `x or criterion`: classes and instances are truthy
OrCriterion(x, criterion) == IF x.kind = "none" THEN criterion ELSE x

\* the fields of a composite criterion after __init__
SS_new(single, supervision, supervised_criterion, unsupervised_criterion) ==
    [single |-> single,
     supervision |-> supervision, original_supervision |-> supervision,
     supervised_criterion |-> supervised_criterion,
     unsupervised_criterion |-> unsupervised_criterion,
     n_outputs |-> supervised_criterion.n_outputs,
     n_samples |-> supervised_criterion.n_samples,
     n_features |-> unsupervised_criterion.n_outputs,
     X |-> Cols(0, 0), y |-> Cols(0, 0), full_X |-> Cols(0, 0),
     sample_weight |-> NoWeights(supervised_criterion.n_samples),
     start |-> 0, end |-> 0, pos |-> 0, n_node_samples |-> 0,
     weighted_n_samples |-> 0, weighted_n_node_samples |-> 0,
     weighted_n_left |-> 0, weighted_n_right |-> 0,
     current_feature |-> 0, current_node_impurity |-> R(0)]

\* the supervision check with 0 excluded
SupervisionOk_strict(supervision) ==
    RLeq(R(0), supervision) /\ RLeq(supervision, R(1)) /\ supervision # R(0)

\* `0 <= supervision <= 1`
SupervisionOk(supervision) == RLeq(R(0), supervision) /\ RLeq(supervision, R(1))

\* the shape check without n_samples
ShapeMissing_ignoresSamples(n, n_samples) == n = 0

\* `not n or not n_samples`: a shape parameter a class needs is missing
ShapeMissing(n, n_samples) == n = 0 \/ n_samples = 0

\* the outcome of a constructor call that raised ValueError: no object
CtorRaised(message) ==
    [error |-> "ValueError", message |-> message,
     obj |-> SS_new(FALSE, R(0), RC_new(0, 0), RC_new(0, 0))]

\* SSCompositeCriterion.__init__; a is the record of its arguments
SS_construct(a) ==
    LET supervised_criterion == OrCriterion(a.supervised_criterion, a.criterion)
        unsupervised_criterion == OrCriterion(a.unsupervised_criterion, a.criterion)
    IN  IF ~SupervisionOk(a.supervision)
        THEN CtorRaised("supervision must be in [0, 1] interval.")
        ELSE IF a.criterion.kind = "none"
                /\ (a.supervised_criterion.kind = "none"
                    \/ a.unsupervised_criterion.kind = "none")
        THEN CtorRaised("If criterion is None, both must be given.")
        ELSE IF supervised_criterion.kind = "class"
                /\ ShapeMissing(a.n_outputs, a.n_samples)
        THEN CtorRaised("If supervised_criterion is a class, one must provide both.")
        ELSE IF unsupervised_criterion.kind = "class"
                /\ ShapeMissing(a.n_features, a.n_samples)
        THEN CtorRaised("If unsupervised_criterion is a class, one must provide both.")
        ELSE [error |-> "", message |-> "",
              obj |-> SS_new(FALSE, a.supervision,
                        IF supervised_criterion.kind = "class"
                        THEN RC_new(a.n_outputs, a.n_samples)
                        ELSE supervised_criterion.obj,
                        IF unsupervised_criterion.kind = "class"
                        THEN RC_new(a.n_features, a.n_samples)
                        ELSE unsupervised_criterion.obj)]

\* the arguments of a constructor call
CtorArgs(supervision, n_outputs, n_features, n_samples, criterion, supervised_criterion, unsupervised_criterion) ==
    [supervision |-> supervision, n_outputs |-> n_outputs,
     n_features |-> n_features, n_samples |-> n_samples,
     criterion |-> criterion,
     supervised_criterion |-> supervised_criterion,
     unsupervised_criterion |-> unsupervised_criterion]

\* SSMSE(supervision, n_outputs, n_features, n_samples)
SSMSE_new(supervision, n_outputs, n_features, n_samples) ==
    SS_construct(CtorArgs(supervision, n_outputs, n_features, n_samples,
                          CritClass, CritNone, CritNone)).obj

\* SFSSMSE(supervision, n_outputs, n_features, n_samples): n_features is
\* forced to 1, the unsupervised criterion has a single output
SFSSMSE_new(supervision, n_outputs, n_features, n_samples) ==
    [SS_construct(CtorArgs(supervision, n_outputs, 1, n_samples,
                           CritClass, CritNone, CritNone)).obj
        EXCEPT !.single = TRUE]

\* the data the two sub-criteria are bound to
SupY(o, inp) == View(inp.z, o.y)

UnsupY(o, inp) == View(inp.z, o.X)

\* node_impurity() with the two blend weights exchanged
SS_node_impurity_swapped(o) ==
    RAdd(RMul(RSub(R(1), o.supervision), RC_node_impurity(o.supervised_criterion)),
         RMul(o.supervision, RC_node_impurity(o.unsupervised_criterion)))

\* node_impurity(): sup * supervised + (1 - sup) * unsupervised
SS_node_impurity(o) ==
    RAdd(RMul(o.supervision, RC_node_impurity(o.supervised_criterion)),
         RMul(RSub(R(1), o.supervision),
              RC_node_impurity(o.unsupervised_criterion)))

\* set_feature(new_feature): rebinds the unsupervised criterion to one
\* column of full_X over the node the composite's fields describe, and
\* caches the node impurity
SFSS_set_feature(o, inp, new_feature) ==
    LET o1 == [o EXCEPT !.current_feature = new_feature,
                        !.X = Cols(o.full_X.lo + new_feature,
                                   o.full_X.lo + new_feature + 1)]
        o2 == [o1 EXCEPT !.unsupervised_criterion =
                  RC_init(o1.unsupervised_criterion, UnsupY(o1, inp),
                          o1.sample_weight, o1.weighted_n_samples,
                          inp.samples, o1.start, o1.end)]
    IN  [o2 EXCEPT !.current_node_impurity = SS_node_impurity(o2)]

\* unpack_y() taking the targets from the first columns
SS_unpack_y_targetsFirst(o, inp) ==
    IF o.single
    THEN SFSS_set_feature([o EXCEPT !.full_X = Cols(0, inp.n_cols - o.n_outputs),
                                  !.y = Cols(inp.n_cols - o.n_outputs, inp.n_cols)],
                        inp, o.current_feature)
    ELSE [o EXCEPT !.X = Cols(o.n_outputs, inp.n_cols),
                   !.y = Cols(0, o.n_outputs)]

\* unpack_y(): split the stacked matrix; the single-feature variant also
\* calls set_feature(current_feature), before init() has stored the node
SS_unpack_y(o, inp) ==
    IF o.single
    THEN SFSS_set_feature([o EXCEPT !.full_X = Cols(0, inp.n_cols - o.n_outputs),
                                  !.y = Cols(inp.n_cols - o.n_outputs, inp.n_cols)],
                        inp, o.current_feature)
    ELSE [o EXCEPT !.X = Cols(0, o.n_features),
                   !.y = Cols(o.n_features, inp.n_cols)]

\* init(y, sample_weight, weighted_n_samples, samples, start, end)
SS_init(o, inp, weighted_n_samples, start, end) ==
    LET o1 == [SS_unpack_y(o, inp) EXCEPT
                  !.sample_weight = inp.sample_weight,
                  !.start = start, !.end = end,
                  !.n_node_samples = end - start,
                  !.weighted_n_samples = weighted_n_samples]
        s == RC_init(o1.supervised_criterion, SupY(o1, inp), inp.sample_weight,
                     weighted_n_samples, inp.samples, start, end)
        u == RC_init(o1.unsupervised_criterion, UnsupY(o1, inp), inp.sample_weight,
                     weighted_n_samples, inp.samples, start, end)
    IN  [o1 EXCEPT !.supervised_criterion = s,
                   !.unsupervised_criterion = u,
                   !.weighted_n_node_samples = s.weighted_n_node_samples,
                   !.weighted_n_left = s.weighted_n_left,
                   !.weighted_n_right = s.weighted_n_right]

\* the return code with the unsupervised criterion's code not looked at
RetCode_ignoresUnsupervised(failed) == IF "supervised" \in failed THEN -1 ELSE 0

\* the return code of reset / reverse_reset / update: -1 as soon as a
\* sub-criterion call returns -1, else 0; failed is the set of the
\* sub-criteria whose call returns -1
RetCode(failed) ==
    IF "supervised" \in failed THEN -1
    ELSE IF "unsupervised" \in failed THEN -1
    ELSE 0

\* the outcome of a call: its return code and the calls that failed in it
Outcome(failed) == [ret |-> RetCode(failed), failed |-> failed]

\* reset / reverse_reset / update when the call of sub-criterion `who`
\* fails: the supervised criterion is called first and the composite
\* returns at the first failure, before pos is written; sup_after is the
\* supervised criterion after its call.  A call that fails is taken to
\* leave its criterion as it was.
SS_forward_failing(o, sup_after, who) ==
    IF who = "supervised" THEN o
    ELSE [o EXCEPT !.supervised_criterion = sup_after]

\* reset(): both sub-criteria
SS_reset(o) ==
    [o EXCEPT !.supervised_criterion = RC_reset(o.supervised_criterion),
              !.unsupervised_criterion = RC_reset(o.unsupervised_criterion)]

\* reverse_reset(): both sub-criteria
SS_reverse_reset(o) ==
    [o EXCEPT !.supervised_criterion = RC_reverse_reset(o.supervised_criterion),
              !.unsupervised_criterion = RC_reverse_reset(o.unsupervised_criterion)]

\* update(new_pos) forwarding to the supervised criterion only
SS_update_supervisedOnly(o, inp, new_pos) ==
    [o EXCEPT !.supervised_criterion =
                  RC_update(o.supervised_criterion, SupY(o, inp),
                            o.sample_weight, inp.samples, new_pos),
              !.pos = new_pos]

\* update(new_pos): both sub-criteria, then the composite's own pos
SS_update(o, inp, new_pos) ==
    [o EXCEPT !.supervised_criterion =
                  RC_update(o.supervised_criterion, SupY(o, inp),
                            o.sample_weight, inp.samples, new_pos),
              !.unsupervised_criterion =
                  RC_update(o.unsupervised_criterion, UnsupY(o, inp),
                            o.sample_weight, inp.samples, new_pos),
              !.pos = new_pos]

\* children_impurity() taking the unsupervised part of the right child
\* from the left child
SS_children_impurity_rightFromLeft(o, inp) ==
    LET s == RC_children_impurity(o.supervised_criterion, SupY(o, inp),
                                  o.sample_weight, inp.samples)
        u == RC_children_impurity(o.unsupervised_criterion, UnsupY(o, inp),
                                  o.sample_weight, inp.samples)
        sup == o.supervision
    IN  [left |-> RAdd(RMul(sup, s.left), RMul(RSub(R(1), sup), u.left)),
         right |-> RAdd(RMul(sup, s.right), RMul(RSub(R(1), sup), u.left))]

\* children_impurity(): the blend of the sub-criteria's children impurities
SS_children_impurity(o, inp) ==
    LET s == RC_children_impurity(o.supervised_criterion, SupY(o, inp),
                                  o.sample_weight, inp.samples)
        u == RC_children_impurity(o.unsupervised_criterion, UnsupY(o, inp),
                                  o.sample_weight, inp.samples)
        sup == o.supervision
    IN  [left |-> RAdd(RMul(sup, s.left), RMul(RSub(R(1), sup), u.left)),
         right |-> RAdd(RMul(sup, s.right), RMul(RSub(R(1), sup), u.right))]

\* node_value() written by the unsupervised criterion
SS_node_value_unsupervised(o) == RC_node_value(o.unsupervised_criterion)

\* node_value(): that of the supervised criterion
SS_node_value(o) == RC_node_value(o.supervised_criterion)

\* impurity_improvement() returning the supervised criterion's improvement
SS_impurity_improvement_supervisedOnly(o, impurity_parent, impurity_left, impurity_right) ==
    RC_impurity_improvement(o.supervised_criterion,
                            impurity_parent, impurity_left, impurity_right)

\* SSCompositeCriterion.impurity_improvement()
SS_impurity_improvement(o, impurity_parent, impurity_left, impurity_right) ==
    LET s_imp == RC_impurity_improvement(o.supervised_criterion,
                     impurity_parent, impurity_left, impurity_right)
        u_imp == RC_impurity_improvement(o.unsupervised_criterion,
                     impurity_parent, impurity_left, impurity_right)
    IN  RAdd(RMul(o.supervision, s_imp),
             RMul(RSub(R(1), o.supervision), u_imp))

\* the single-feature impurity_improvement() trusting its argument
SFSS_impurity_improvement_usesArgument(o, impurity_parent, impurity_left, impurity_right) ==
    SS_impurity_improvement(o, impurity_parent, impurity_left, impurity_right)

\* SingleFeatureSSCompositeCriterion.impurity_improvement(): the cached
\* node impurity takes the place of impurity_parent
SFSS_impurity_improvement(o, impurity_parent, impurity_left, impurity_right) ==
    SS_impurity_improvement(o, o.current_node_impurity,
                            impurity_left, impurity_right)

(***************************************************************************)
(* Dispatch on the axis argument of the bipartite criteria.  An outcome    *)
(* tells how the call ended and which axis object it worked on.            *)
(***************************************************************************)
AxisOutcome(error, selected) == [error |-> error, selected |-> selected]

\* _get_criterion(axis) of RegressionCriterionGSO and of GMO
GSO_get_criterion(axis) ==
    IF axis = 0 THEN AxisOutcome("", "criterion_rows")
    ELSE IF axis = 1 THEN AxisOutcome("", "criterion_cols")
    ELSE AxisOutcome("InvalidAxisError", "")

\* children_impurity / impurity_improvement of the GSO and GMO classes are
\* nogil C functions without an exception value: the InvalidAxisError set
\* by _get_criterion either propagates to the caller or is reported as
\* unraisable and dropped, depending on the Cython that built the module
GSO_axis_call(axis) ==
    LET r == GSO_get_criterion(axis)
    IN  IF r.error = "" THEN {r} ELSE {r, AxisOutcome("unraisable", "")}

\* ss_impurity() weighting the two unsupervised impurities by the feature
\* counts alone
Wrapper2DSS_ss_impurity_noSupervision(w, u_imp_rows, u_imp_cols, s_imp) ==
    LET n_features == w.rows.n_features + w.cols.n_features
        wur == RDiv(R(w.rows.n_features), R(n_features))
        wuc == RDiv(R(w.cols.n_features), R(n_features))
        u_imp == RAdd(RMul(wur, u_imp_rows), RMul(wuc, u_imp_cols))
    IN  RAdd(u_imp,
             RDiv(RMul(s_imp, RAdd(w.rows.supervision, w.cols.supervision)), R(2)))

\* ss_impurity() with the supervised impurity not halved
Wrapper2DSS_ss_impurity_notHalved(w, u_imp_rows, u_imp_cols, s_imp) ==
    LET n_features == w.rows.n_features + w.cols.n_features
        wur == RDiv(RMul(R(w.rows.n_features), RSub(R(1), w.rows.supervision)),
                    R(n_features))
        wuc == RDiv(RMul(R(w.cols.n_features), RSub(R(1), w.cols.supervision)),
                    R(n_features))
        u_imp == RAdd(RMul(wur, u_imp_rows), RMul(wuc, u_imp_cols))
    IN  RAdd(u_imp, RMul(s_imp, RAdd(w.rows.supervision, w.cols.supervision)))

\* MSE_Wrapper2DSS.ss_impurity(u_imp_rows, u_imp_cols, s_imp); w holds the
\* supervision and the unsupervised n_outputs of the two axes' criteria
Wrapper2DSS_ss_impurity(w, u_imp_rows, u_imp_cols, s_imp) ==
    LET n_features == w.rows.n_features + w.cols.n_features
        wur == RDiv(RMul(R(w.rows.n_features), RSub(R(1), w.rows.supervision)),
                    R(n_features))
        wuc == RDiv(RMul(R(w.cols.n_features), RSub(R(1), w.cols.supervision)),
                    R(n_features))
        u_imp == RAdd(RMul(wur, u_imp_rows), RMul(wuc, u_imp_cols))
    IN  RAdd(u_imp,
             RDiv(RMul(s_imp, RAdd(w.rows.supervision, w.cols.supervision)), R(2)))

\* MSE_Wrapper2DSS._node_impurity(): node holds the node impurities of the
\* two unsupervised criteria and MSE_Wrapper2D.node_impurity()
Wrapper2DSS_node_impurity(w, node) ==
    Wrapper2DSS_ss_impurity(w, node.u_rows, node.u_cols, node.s)

\* MSE_Wrapper2DSS._get_criterion / _get_splitter: two `if`s and no else;
\* with another axis the attribute of a None object is read, which is
\* undefined: the process dies or the call goes on with whatever it read
Wrapper2DSS_axis_call(axis) ==
    IF axis = 1 THEN {AxisOutcome("", "splitter_cols")}
    ELSE IF axis = 0 THEN {AxisOutcome("", "splitter_rows")}
    ELSE {AxisOutcome("crash", ""), AxisOutcome("", "garbage")}

\* MSE2DSFSS.impurity_improvement: `if axis == 1 ... elif axis == 0 ...`,
\* and the end of the function for any other axis
MSE2DSFSS_impurity_improvement_axis(axis) ==
    IF axis = 1 THEN {AxisOutcome("", "splitter_cols")}
    ELSE IF axis = 0 THEN {AxisOutcome("", "splitter_rows")}
    ELSE {AxisOutcome("", "none")}

Variants ==
    {"SquaredErrorGSO", "FriedmanGSO", "GMO", "GMOSA", "MSE_Wrapper2DSS", "MSE2DSFSS"}

AxisMethods == {"children_impurity", "impurity_improvement"}

\* the outcomes of variant.method(..., axis)
AxisCallOutcomes(variant, method, axis) ==
    IF variant \in {"SquaredErrorGSO", "FriedmanGSO", "GMO", "GMOSA"}
    THEN GSO_axis_call(axis)
    ELSE IF variant = "MSE2DSFSS" /\ method = "impurity_improvement"
    THEN MSE2DSFSS_impurity_improvement_axis(axis)
    ELSE Wrapper2DSS_axis_call(axis)

(***************************************************************************)
(* State of the bipartite (GSO) machine.                                   *)
(*   data       the Builder's dataset, fixed for the whole tree            *)
(*   order      the Builder's row and column index arrays                  *)
(*   gso        the RegressionCriterionGSO instance                        *)
(*   crit_rows, crit_cols   its two axis criteria                          *)
(*   depth      depth in the tree of the node the criterion is bound to    *)
(*   n_back     history variable: n_back[axis] counts the updates that     *)
(*              moved pos backwards since the left statistics of the axis  *)
(*              criterion were last recomputed from scratch                *)
(***************************************************************************)
VARIABLES data, order, gso, crit_rows, crit_cols, depth, n_back

gsoVars == <<data, order, gso, crit_rows, crit_cols, depth, n_back>>

(***************************************************************************)
(* State of the other machines.                                            *)
(*   ssin       the splitter's input to the composite criterion            *)
(*   ss         the composite criterion, its two sub-criteria nested       *)
(*   ss_depth   depth in the tree of the node ss is bound to               *)
(*   ss_back    history variable: the backward updates of the supervised   *)
(*              (0) and of the unsupervised (1) sub-criterion              *)
(*   calls      history variable: the last two calls made on ss            *)
(*   ss_rc      what the last init/reset/reverse_reset/update call on ss   *)
(*              returned, and the sub-criterion calls that failed in it    *)
(*   ctor       the constructor call made, and its result                  *)
(*   axis_call  the last axis-parameterised call, and its outcome          *)
(*   wrap       the composite-aware bipartite wrapper and its last call    *)
(***************************************************************************)
VARIABLES ssin, ss, ss_depth, ss_back, calls, ss_rc, ctor, axis_call, wrap

ssVars == <<ssin, ss, ss_depth, ss_back, calls, ss_rc>>

\* the spec's example: Y = [[1,2,3],[4,5,6],[7,8,9]]
YLit == [i \in 0..2 |-> [j \in 0..2 |-> 3 * i + j + 1]]

\* a 3 x 2 interaction matrix: [[0,1],[3,1],[2,0]]
YSmall == [i \in 0..2 |-> [j \in 0..1 |-> IF i = 0 THEN j ELSE IF i = 1 THEN 3 - 2 * j ELSE 2 - 2 * j]]

RowWeightsSmall == Weights([i \in 0..2 |-> i + 1])

ColWeightsSmall == Weights([j \in 0..1 |-> 3 - j])

\* a dataset, and the depth to which the Builder grows the tree on it
Dataset(n_rows, n_cols, y, rw, cw, max_depth) ==
    [n_rows |-> n_rows, n_cols |-> n_cols, y |-> y,
     row_weights |-> rw, col_weights |-> cw, max_depth |-> max_depth]

\* the order in which the Builder's index arrays list the entities
Order(ri, ci) == [row_indices |-> ri, col_indices |-> ci]

\* the datasets a behaviour may be about: the example as a single-node
\* tree, the small matrix with and without weights as a deeper tree
Datasets ==
    {Dataset(3, 3, YLit, NoWeights(3), NoWeights(3), 0)}
    \cup {Dataset(3, 2, YSmall, rw, cw, MaxDepth) :
             rw \in {RowWeightsSmall},
             cw \in {NoWeights(2), ColWeightsSmall}}

\* what np.empty may hold
Garbage == {0, 5}

\* the permutations of 0..n-1: the index arrays the Builder may hold
Perms(n) ==
    {f \in [0..(n - 1) -> 0..(n - 1)] :
        \A a, b \in 0..(n - 1) : f[a] = f[b] => a = b}

\* the rotations of 0..n-1
Rotations(n) == {[p \in 0..(n - 1) |-> (p + r) % n] : r \in 0..(n - 1)}

\* the index arrays a behaviour starts from
Orders(d) == {Order(ri, ci) : ri \in Rotations(d.n_rows), ci \in Rotations(d.n_cols)}

IdleData == Dataset(1, 1, [i \in {0} |-> [j \in {0} |-> 0]], NoWeights(1), NoWeights(1), 0)

GSOIdle ==
    /\ data = IdleData
    /\ order = Order([p \in {0} |-> 0], [q \in {0} |-> 0])
    /\ gso = GSO_new(1, 1, 0)
    /\ crit_rows = RC_new(1, 1)
    /\ crit_cols = RC_new(1, 1)
    /\ depth = 0
    /\ n_back = Pair(0, 0)

\* construction: RegressionCriterionGSO(criterion_rows, criterion_cols) over
\* two single-output criteria sized to the dataset
GSOConstructed ==
    /\ data \in Datasets
    /\ order \in Orders(data)
    /\ \E garbage \in Garbage : gso = GSO_new(data.n_rows, data.n_cols, garbage)
    /\ crit_rows = RC_new(1, data.n_rows)
    /\ crit_cols = RC_new(1, data.n_cols)
    /\ depth = 0
    /\ n_back = Pair(0, 0)

AxisCriterion(axis) == IF axis = 0 THEN crit_rows ELSE crit_cols

\* the left statistics of the axis criterion are those of [start, pos)
SweepOk(axis) == n_back[axis] = 0

\* init() has bound the criterion to a (non-empty) node
Inited(g) == g.n_node_rows > 0 /\ g.n_node_cols > 0

\* the effect of one init() call on the three objects
InitOn(start, end) ==
    LET g == GSO_init(gso, data, order.row_indices, order.col_indices, start, end)
    IN  /\ gso' = g
        /\ crit_rows' = GSO_init_rows(g, crit_rows)
        /\ crit_cols' = GSO_init_cols(g, crit_cols)
        /\ n_back' = Pair(0, 0)
        /\ UNCHANGED <<data, order, ssVars, ctor, axis_call, wrap>>

\* the Builder calls init() on the root node: the whole matrix
GSOInit ==
    /\ ~Inited(gso)
    /\ InitOn(Pair(0, 0), Pair(data.n_rows, data.n_cols))
    /\ UNCHANGED depth

\* the Builder splits the node at the current position of one axis and
\* calls init() on the left or on the right child
GSODescend ==
    \E axis \in {0, 1}, left \in BOOLEAN :
        LET c == AxisCriterion(axis)
        IN  /\ Inited(gso)
            /\ depth < data.max_depth
            /\ c.start < c.pos /\ c.pos < c.end
            /\ IF left
               THEN InitOn(gso.start, [gso.end EXCEPT ![axis] = c.pos])
               ELSE InitOn([gso.start EXCEPT ![axis] = c.pos], gso.end)
            /\ depth' = depth + 1

\* the two axis criteria, with one of them replaced
SetAxisCriterion(axis, c) ==
    /\ crit_rows' = IF axis = 0 THEN c ELSE crit_rows
    /\ crit_cols' = IF axis = 1 THEN c ELSE crit_cols

\* the axis splitter calls reset() on its criterion
GSOReset ==
    \E axis \in {0, 1} :
        /\ SetAxisCriterion(axis, RC_reset(AxisCriterion(axis)))
        /\ n_back' = [n_back EXCEPT ![axis] = 0]
        /\ UNCHANGED <<data, order, gso, depth, ssVars, ctor, axis_call, wrap>>

\* the axis splitter calls reverse_reset() on its criterion
GSOReverseReset ==
    \E axis \in {0, 1} :
        /\ SetAxisCriterion(axis, RC_reverse_reset(AxisCriterion(axis)))
        /\ n_back' = [n_back EXCEPT ![axis] = 0]
        /\ UNCHANGED <<data, order, gso, depth, ssVars, ctor, axis_call, wrap>>

\* the axis splitter calls update(new_pos), start <= new_pos <= end
GSOUpdate ==
    \E axis \in {0, 1} :
        LET c == AxisCriterion(axis)
        IN  \E new_pos \in c.start..c.end :
              /\ new_pos >= c.pos \/ n_back[axis] < MaxBackward
              /\ SetAxisCriterion(axis,
                    RC_update(c, AxisY(gso, axis), AxisWeights(data, axis),
                              AxisIndices(gso, axis), new_pos))
              /\ n_back' = [n_back EXCEPT ![axis] =
                                IF (new_pos - c.pos) > (c.end - new_pos) THEN 0
                                ELSE IF new_pos < c.pos THEN n_back[axis] + 1
                                ELSE n_back[axis]]
              /\ UNCHANGED <<data, order, gso, depth, ssVars, ctor, axis_call, wrap>>

(***************************************************************************)
(* The semi-supervised (SS) machine: a splitter driving one composite      *)
(* criterion over the nodes of a tree.                                     *)
(***************************************************************************)
SSInput(z, n_samples, n_cols, sample_weight, samples) ==
    [z |-> z, n_samples |-> n_samples, n_cols |-> n_cols,
     sample_weight |-> sample_weight, samples |-> samples]

\* np.hstack([X, y]) of three samples: two feature columns and one target,
\* [[0,0,1],[1,3,0],[2,3,3]]
ZSmall ==
    [i \in 0..2 |->
        [k \in 0..2 |-> IF k = 0 THEN i
                        ELSE IF k = 1 THEN (IF i = 0 THEN 0 ELSE 3)
                        ELSE (IF i = 0 THEN 1 ELSE IF i = 1 THEN 0 ELSE 3)]]

SampleWeightsSmall == Weights([i \in 0..2 |-> IF i = 1 THEN 2 ELSE 1])

\* the index arrays the splitter may hold: sorted, and rotated by one
SampleOrders == {[p \in 0..2 |-> (p + r) % 3] : r \in {0, 1}}

\* the inputs a behaviour may be about
SSInputs ==
    {SSInput(ZSmall, 3, 3, wt, idx) :
        wt \in {NoWeights(3), SampleWeightsSmall}, idx \in SampleOrders}

\* the supervision weights inside [0, 1]
Supervisions == {Norm(n, SupDen) : n \in 0..SupDen}

SSIdleInput == SSInput([i \in {0} |-> [k \in 0..1 |-> 0]], 1, 2, NoWeights(1), [p \in {0} |-> 0])

SSIdle ==
    /\ ssin = SSIdleInput
    /\ ss = SSMSE_new(R(1), 1, 1, 1)
    /\ ss_depth = 0
    /\ ss_back = Pair(0, 0)
    /\ calls = <<>>
    /\ ss_rc = Outcome({})

\* construction: SSMSE or SFSSMSE over one target and the input's features
SSConstructed ==
    /\ ssin \in SSInputs
    /\ \E supervision \in Supervisions, single \in BOOLEAN :
          ss = IF single
               THEN SFSSMSE_new(supervision, 1, ssin.n_cols - 1, ssin.n_samples)
               ELSE SSMSE_new(supervision, 1, ssin.n_cols - 1, ssin.n_samples)
    /\ ss_depth = 0
    /\ ss_back = Pair(0, 0)
    /\ calls = <<>>
    /\ ss_rc = Outcome({})

\* init() has bound the composite criterion to a (non-empty) node
SSInited(o) == o.start < o.end

\* a call in the history: its name, and the feature if it is set_feature
Call(name, feature) == [name |-> name, feature |-> feature]

\* the history after one more call: the last two calls are kept
Called(c) == IF Len(calls) < 2 THEN Append(calls, c) ELSE <<calls[2], c>>

\* the backward-update count of a sub-criterion c after update(new_pos)
BackAfterUpdate(c, back, new_pos) ==
    IF (new_pos - c.pos) > (c.end - new_pos) THEN 0
    ELSE IF new_pos < c.pos THEN back + 1
    ELSE back

\* the effect of one init() call
SSInitOn(start, end) ==
    /\ ss' = SS_init(ss, ssin, TotalWeight(ssin.sample_weight, ssin.n_samples), start, end)
    /\ ss_back' = Pair(0, 0)
    /\ calls' = Called(Call("init", 0))
    /\ ss_rc' = Outcome({})
    /\ UNCHANGED <<ssin, gsoVars, ctor, axis_call, wrap>>

\* the splitter's node_reset on the root: init() over all the samples
SSInit ==
    /\ ~SSInited(ss)
    /\ SSInitOn(0, ssin.n_samples)
    /\ UNCHANGED ss_depth

\* the Builder splits the node somewhere inside and the splitter's
\* node_reset calls init() on the left or on the right child
SSDescend ==
    \E split \in (ss.start + 1)..(ss.end - 1), left \in BOOLEAN :
        /\ SSInited(ss)
        /\ ss_depth < MaxDepth
        /\ IF left THEN SSInitOn(ss.start, split) ELSE SSInitOn(split, ss.end)
        /\ ss_depth' = ss_depth + 1

\* the splitter calls reset()
SSReset ==
    /\ SSInited(ss)
    /\ ss' = SS_reset(ss)
    /\ ss_back' = Pair(0, 0)
    /\ calls' = Called(Call("reset", 0))
    /\ ss_rc' = Outcome({})
    /\ UNCHANGED <<ssin, ss_depth, gsoVars, ctor, axis_call, wrap>>

\* the splitter calls reverse_reset()
SSReverseReset ==
    /\ SSInited(ss)
    /\ ss' = SS_reverse_reset(ss)
    /\ ss_back' = Pair(0, 0)
    /\ calls' = Called(Call("reverse_reset", 0))
    /\ ss_rc' = Outcome({})
    /\ UNCHANGED <<ssin, ss_depth, gsoVars, ctor, axis_call, wrap>>

\* the splitter calls update(new_pos), start <= new_pos <= end
SSUpdate ==
    \E new_pos \in ss.start..ss.end :
        /\ SSInited(ss)
        /\ new_pos >= ss.supervised_criterion.pos \/ ss_back[0] < MaxBackward
        /\ new_pos >= ss.unsupervised_criterion.pos \/ ss_back[1] < MaxBackward
        /\ ss' = SS_update(ss, ssin, new_pos)
        /\ ss_back' = Pair(BackAfterUpdate(ss.supervised_criterion, ss_back[0], new_pos),
                           BackAfterUpdate(ss.unsupervised_criterion, ss_back[1], new_pos))
        /\ calls' = Called(Call("update", 0))
        /\ ss_rc' = Outcome({})
        /\ UNCHANGED <<ssin, ss_depth, gsoVars, ctor, axis_call, wrap>>

\* the single-feature splitter calls set_feature(new_feature)
SSSetFeature ==
    \E new_feature \in 0..(ss.full_X.hi - ss.full_X.lo - 1) :
        /\ ss.single
        /\ SSInited(ss)
        /\ ss' = SFSS_set_feature(ss, ssin, new_feature)
        /\ ss_back' = [ss_back EXCEPT ![1] = 0]
        /\ calls' = Called(Call("set_feature", new_feature))
        /\ UNCHANGED <<ssin, ss_depth, ss_rc, gsoVars, ctor, axis_call, wrap>>

\* the splitter calls update(new_pos) with new_pos outside [start, end],
\* or update(0) before init(); new_pos stays inside the index array, so
\* that every sample the sub-criteria read exists
SSUpdateOutside ==
    \E new_pos \in 0..ssin.n_samples :
        /\ IF SSInited(ss) THEN new_pos < ss.start \/ new_pos > ss.end
           ELSE new_pos = 0
        /\ new_pos >= ss.supervised_criterion.pos \/ ss_back[0] < MaxBackward
        /\ new_pos >= ss.unsupervised_criterion.pos \/ ss_back[1] < MaxBackward
        /\ ss' = SS_update(ss, ssin, new_pos)
        /\ ss_back' = Pair(BackAfterUpdate(ss.supervised_criterion, ss_back[0], new_pos),
                           BackAfterUpdate(ss.unsupervised_criterion, ss_back[1], new_pos))
        /\ calls' = Called(Call("update", 0))
        /\ ss_rc' = Outcome({})
        /\ UNCHANGED <<ssin, ss_depth, gsoVars, ctor, axis_call, wrap>>

\* the splitter calls reset(), reverse_reset() or update(new_pos) and the
\* call of one of the sub-criteria returns -1
SSCallFails ==
    \E name \in {"reset", "reverse_reset", "update"},
       who \in {"supervised", "unsupervised"},
       new_pos \in ss.start..ss.end :
        LET c == ss.supervised_criterion
            sup_after == IF name = "reset" THEN RC_reset(c)
                         ELSE IF name = "reverse_reset" THEN RC_reverse_reset(c)
                         ELSE RC_update(c, SupY(ss, ssin), ss.sample_weight,
                                        ssin.samples, new_pos)
        IN  /\ SSInited(ss)
            /\ name # "update" => new_pos = ss.start
            /\ name = "update" =>
                  (new_pos >= c.pos \/ ss_back[0] < MaxBackward)
            /\ ss' = SS_forward_failing(ss, sup_after, who)
            /\ ss_back' = IF who = "supervised" THEN ss_back
                          ELSE [ss_back EXCEPT ![0] =
                                  IF name = "update"
                                  THEN BackAfterUpdate(c, ss_back[0], new_pos)
                                  ELSE 0]
            /\ calls' = Called(Call(name, 0))
            /\ ss_rc' = Outcome({who})
            /\ UNCHANGED <<ssin, ss_depth, gsoVars, ctor, axis_call, wrap>>

(***************************************************************************)
(* The constructor machine: one call of SSCompositeCriterion(...).         *)
(***************************************************************************)
\* the criterion arguments a call may pass
CriterionArgs == {CritNone, CritClass, CritInstance(RC_new(1, MaxShape))}

\* the supervision arguments: inside, on the edges of and outside [0, 1]
SupervisionArgs == {Norm(n, SupDen) : n \in (-1)..(SupDen + 1)}

\* no constructor call has been made
CtorIdle ==
    ctor = [called |-> FALSE,
            args |-> CtorArgs(R(0), 0, 0, 0, CritNone, CritNone, CritNone),
            result |-> CtorRaised("")]

\* SSCompositeCriterion(supervision, n_outputs, n_features, n_samples,
\*                      criterion, supervised_criterion, unsupervised_criterion)
CtorCall ==
    /\ ~ctor.called
    /\ \E supervision \in SupervisionArgs,
          n_outputs \in 0..MaxShape, n_features \in 0..MaxShape, n_samples \in 0..MaxShape,
          criterion \in CriterionArgs, supervised_criterion \in CriterionArgs,
          unsupervised_criterion \in CriterionArgs :
            LET a == CtorArgs(supervision, n_outputs, n_features, n_samples,
                              criterion, supervised_criterion, unsupervised_criterion)
            IN  ctor' = [called |-> TRUE, args |-> a, result |-> SS_construct(a)]
    /\ UNCHANGED <<gsoVars, ssVars, axis_call, wrap>>

(***************************************************************************)
(* The GMO constructor machine: GMO(criterion_rows, criterion_cols).  It   *)
(* records its one call in ctor.                                           *)
(***************************************************************************)
\* an AxisCriterion instance; classification says whether it is an
\* AxisClassificationCriterion, which alone has max_n_classes (0 otherwise)
AxisCrit(classification, n_samples, n_outputs, max_n_classes) ==
    [classification |-> classification, n_samples |-> n_samples,
     n_outputs |-> n_outputs, max_n_classes |-> max_n_classes]

\* the fields GMO.__init__ writes
GMO_new(criterion_rows, criterion_cols, max_n_classes) ==
    [criterion_rows |-> criterion_rows, criterion_cols |-> criterion_cols,
     n_rows |-> criterion_rows.n_samples, n_cols |-> criterion_cols.n_samples,
     n_outputs_rows |-> criterion_rows.n_outputs,
     n_outputs_cols |-> criterion_cols.n_outputs,
     max_n_classes |-> max_n_classes,
     n_outputs |-> criterion_rows.n_outputs + criterion_cols.n_outputs]

\* GMO.__init__(criterion_rows, criterion_cols)
GMO_construct(criterion_rows, criterion_cols) ==
    IF criterion_rows.classification
    THEN IF ~criterion_cols.classification
         THEN [error |-> "TypeError",
               message |-> "None or both axes criteria must be AxisClassificationCriterion.",
               obj |-> GMO_new(criterion_rows, criterion_cols, 0)]
         ELSE [error |-> "", message |-> "",
               obj |-> GMO_new(criterion_rows, criterion_cols,
                               criterion_cols.max_n_classes)]
    ELSE [error |-> "", message |-> "",
          obj |-> GMO_new(criterion_rows, criterion_cols, 1)]

\* the doubles an axis criterion's node_value(dest + offset) writes: one
\* per output for a regression criterion, max_n_classes per output for a
\* classification criterion; lo is the first slot, hi the one after the last
AxisWrites(c, offset) ==
    [lo |-> offset,
     hi |-> offset + c.n_outputs * (IF c.classification THEN c.max_n_classes ELSE 1)]

\* GMO.node_value(dest): the column criterion writes at dest, the row
\* criterion at dest + n_outputs_cols * max_n_classes
GMO_node_value(o) ==
    [cols |-> AxisWrites(o.criterion_cols, 0),
     rows |-> AxisWrites(o.criterion_rows, o.n_outputs_cols * o.max_n_classes)]

\* GMO.node_impurity(): that of the row criterion; impurity holds the node
\* impurities of the two axis criteria
GMO_node_impurity(o, impurity) == impurity.rows

\* nothing has been evaluated on the GMO
NoEval ==
    [done |-> FALSE, impurity |-> [rows |-> R(0), cols |-> R(0)],
     node_value |-> [cols |-> [lo |-> 0, hi |-> 0], rows |-> [lo |-> 0, hi |-> 0]],
     node_impurity |-> R(0)]

\* the axis criteria a GMO may be built from
AxisCriteria ==
    {AxisCrit(FALSE, n_samples, n_outputs, 0) :
        n_samples \in 1..MaxShape, n_outputs \in 1..MaxShape}
    \cup {AxisCrit(TRUE, c[1], c[2], c[3]) :
            c \in (1..MaxShape) \X (1..MaxShape) \X (2..(MaxShape + 1))}

\* GMO(criterion_rows, criterion_cols) is called
GMOCtorCall ==
    /\ ~ctor.called
    /\ \E criterion_rows \in AxisCriteria, criterion_cols \in AxisCriteria :
          ctor' = [called |-> TRUE,
                   args |-> [criterion_rows |-> criterion_rows,
                             criterion_cols |-> criterion_cols],
                   result |-> GMO_construct(criterion_rows, criterion_cols),
                   eval |-> NoEval]
    /\ UNCHANGED <<gsoVars, ssVars, axis_call, wrap>>

\* the node impurities the two axis criteria of a GMO may hold
AxisImpurities == {R(0), R(1), R(7)}

\* node_value(dest) and node_impurity() are called on the GMO that was
\* built, whose axis criteria hold some node impurities
GMOEvaluate ==
    /\ ctor.called /\ ctor.result.error = ""
    /\ ~ctor.eval.done
    /\ \E rows \in AxisImpurities, cols \in AxisImpurities :
          LET impurity == [rows |-> rows, cols |-> cols]
          IN  ctor' = [ctor EXCEPT !.eval =
                         [done |-> TRUE, impurity |-> impurity,
                          node_value |-> GMO_node_value(ctor.result.obj),
                          node_impurity |-> GMO_node_impurity(ctor.result.obj, impurity)]]
    /\ UNCHANGED <<gsoVars, ssVars, axis_call, wrap>>

(***************************************************************************)
(* The axis machine: axis-parameterised calls on a bipartite criterion.    *)
(***************************************************************************)
\* the axis arguments: the two valid ones and 2
Axes == {0, 1, 2}

NoAxisCall ==
    [variant |-> "", method |-> "", axis |-> 0, outcome |-> AxisOutcome("", "")]

AxisIdle == axis_call = NoAxisCall

\* variant.method(..., axis) is called; none of the calls writes to the
\* criterion
AxisCall ==
    \E variant \in Variants, method \in AxisMethods, axis \in Axes :
        \E outcome \in AxisCallOutcomes(variant, method, axis) :
            /\ axis_call' = [variant |-> variant, method |-> method,
                             axis |-> axis, outcome |-> outcome]
            /\ UNCHANGED <<gsoVars, ssVars, ctor, wrap>>

(***************************************************************************)
(* The wrapper machine: MSE_Wrapper2DSS over two splitters whose criteria  *)
(* are composite criteria.                                                 *)
(***************************************************************************)
\* what the wrapper reads of one axis's composite criterion: its
\* supervision and its unsupervised criterion's n_outputs
WrapAxis(supervision, n_features) ==
    [supervision |-> supervision, n_features |-> n_features]

\* the impurities node_impurity() combines: those of the two unsupervised
\* criteria and the plain supervised impurity of the node
NodeImpurities(u_rows, u_cols, s) == [u_rows |-> u_rows, u_cols |-> u_cols, s |-> s]

\* a wrapper over the two axes, and the last call made on it
Wrapper(built, rows, cols, called, args, result) ==
    [built |-> built, rows |-> rows, cols |-> cols,
     called |-> called, args |-> args, result |-> result]

WrapIdle ==
    wrap = Wrapper(FALSE, WrapAxis(R(0), 1), WrapAxis(R(0), 1), "",
                   NodeImpurities(R(0), R(0), R(0)), R(0))

\* the wrapper is built over two composite criteria
WrapBuild ==
    /\ ~wrap.built
    /\ \E sup_rows \in Supervisions, sup_cols \in Supervisions,
          n_row_features \in 1..MaxShape, n_col_features \in 1..MaxShape :
            wrap' = [wrap EXCEPT !.built = TRUE,
                                 !.rows = WrapAxis(sup_rows, n_row_features),
                                 !.cols = WrapAxis(sup_cols, n_col_features)]
    /\ UNCHANGED <<gsoVars, ssVars, ctor, axis_call>>

\* the impurities a call may be about
WrapImpurities == {R(0), R(1), R(7)}

\* ss_impurity(u_imp_rows, u_imp_cols, s_imp) is called
WrapSSImpurity ==
    /\ wrap.built
    /\ \E u_imp_rows \in WrapImpurities, u_imp_cols \in WrapImpurities,
          s_imp \in WrapImpurities :
            wrap' = [wrap EXCEPT !.called = "ss_impurity",
                                 !.args = NodeImpurities(u_imp_rows, u_imp_cols, s_imp),
                                 !.result = Wrapper2DSS_ss_impurity(wrap, u_imp_rows,
                                                                    u_imp_cols, s_imp)]
    /\ UNCHANGED <<gsoVars, ssVars, ctor, axis_call>>

\* node_impurity() is called on a node where the criteria hold some
\* impurities
WrapNodeImpurity ==
    /\ wrap.built
    /\ \E u_rows \in WrapImpurities, u_cols \in WrapImpurities, s \in WrapImpurities :
          LET node == NodeImpurities(u_rows, u_cols, s)
          IN  wrap' = [wrap EXCEPT !.called = "node_impurity",
                                   !.args = node,
                                   !.result = Wrapper2DSS_node_impurity(wrap, node)]
    /\ UNCHANGED <<gsoVars, ssVars, ctor, axis_call>>

vars == <<gsoVars, ssVars, ctor, axis_call, wrap>>

SpecGSOInit == GSOConstructed /\ SSIdle /\ CtorIdle /\ AxisIdle /\ WrapIdle

SpecGSONext == GSOInit \/ GSODescend \/ GSOReset \/ GSOReverseReset \/ GSOUpdate

SpecGSO == SpecGSOInit /\ [][SpecGSONext]_vars

SpecSSInit == SSConstructed /\ GSOIdle /\ CtorIdle /\ AxisIdle /\ WrapIdle

SpecSSNext ==
    SSInit \/ SSDescend \/ SSReset \/ SSReverseReset \/ SSUpdate \/ SSSetFeature

SpecSS == SpecSSInit /\ [][SpecSSNext]_vars

\* the composite criterion driven also outside its contract: positions
\* outside the node, and sub-criteria whose calls fail
\* a call that returns -1 raises in the splitter and ends the build
SSRunning == ss_rc.ret = 0

SpecSSFailNext ==
    \/ SSRunning /\ SSInit
    \/ SSRunning /\ SSDescend
    \/ SSRunning /\ SSReset
    \/ SSRunning /\ SSReverseReset
    \/ SSRunning /\ SSUpdate
    \/ SSRunning /\ SSUpdateOutside
    \/ SSRunning /\ SSCallFails

\* it is constructed as an SSMSE over the weighted input
SSFailConstructed ==
    /\ SSConstructed
    /\ ssin.sample_weight = SampleWeightsSmall
    /\ ss.supervision = Norm(1, SupDen)
    /\ ~ss.single

SpecSSFailInit == SSFailConstructed /\ GSOIdle /\ CtorIdle /\ AxisIdle /\ WrapIdle

SpecSSFail == SpecSSFailInit /\ [][SpecSSFailNext]_vars

SpecCtorInit == CtorIdle /\ GSOIdle /\ SSIdle /\ AxisIdle /\ WrapIdle

SpecCtorNext == CtorCall

SpecCtor == SpecCtorInit /\ [][SpecCtorNext]_vars

SpecAxisInit == GSOConstructed /\ SSIdle /\ CtorIdle /\ AxisIdle /\ WrapIdle

SpecAxisNext == GSOInit \/ AxisCall

SpecAxis == SpecAxisInit /\ [][SpecAxisNext]_vars

SpecGMOInit == CtorIdle /\ GSOIdle /\ SSIdle /\ AxisIdle /\ WrapIdle

SpecGMONext == GMOCtorCall \/ GMOEvaluate

SpecGMO == SpecGMOInit /\ [][SpecGMONext]_vars

SpecWrapInit == WrapIdle /\ GSOIdle /\ SSIdle /\ CtorIdle /\ AxisIdle

SpecWrapNext == WrapBuild \/ WrapSSImpurity \/ WrapNodeImpurity

SpecWrap == SpecWrapInit /\ [][SpecWrapNext]_vars

(***************************************************************************)
(* Properties of the bipartite (GSO) machine.                              *)
(***************************************************************************)
\* the entities of the node, and the weighted sums over them, stated over
\* sets of entities rather than over positions of the index arrays
NodeRows(g) == {g.row_indices[p] : p \in RowRange(g.start, g.end)}

NodeCols(g) == {g.col_indices[q] : q \in ColRange(g.start, g.end)}

RowW(i) == WeightOf(data.row_weights, i)

ColW(j) == WeightOf(data.col_weights, j)

\* sum over the block I x J of wi * wj * Y[i,j]
BlockSum(I, J) ==
    SumOver([i \in I |-> RowW(i) * SumOver([j \in J |-> ColW(j) * data.y[i][j]], J)], I)

\* sum over the block I x J of wi * wj * Y[i,j]^2
BlockSqSum(I, J) ==
    SumOver([i \in I |->
               RowW(i) * SumOver([j \in J |-> ColW(j) * data.y[i][j] * data.y[i][j]], J)],
            I)

\* total weight of the block I x J
BlockWeight(I, J) == SumOver([i \in I |-> RowW(i)], I) * SumOver([j \in J |-> ColW(j)], J)

\* the root node of the spec's example has been initialised
LitRoot == Inited(gso) /\ data.y = YLit /\ depth = 0

\* C1: partition invariant.  Once init() has bound the criterion to a node,
\* after any sequence of reset() / update(p), start <= p <= end, each axis
\* criterion has sum_left + sum_right = sum_total, the shared 2D grand
\* total that init() wrote into it, and
\* weighted_n_left + weighted_n_right = weighted_n_node_samples.
C1_PartitionInvariant ==
    Inited(gso) =>
        \A axis \in {0, 1} :
            LET c == AxisCriterion(axis)
            IN  /\ c.sum_total[0] = gso.sum_total
                /\ c.sum_left[0] + c.sum_right[0] = gso.sum_total
                /\ c.weighted_n_left + c.weighted_n_right = c.weighted_n_node_samples
                /\ c.weighted_n_node_samples =
                     (IF axis = 0 THEN gso.weighted_n_node_rows
                      ELSE gso.weighted_n_node_cols)

\* a weighted child node in which both axis criteria have been moved, the
\* row criterion backwards too
C1_Witness ==
    /\ Inited(gso) /\ depth = 1
    /\ ~data.row_weights.none
    /\ crit_rows.start < crit_rows.pos /\ crit_rows.pos < crit_rows.end
    /\ crit_rows.sum_left[0] # 0 /\ crit_rows.sum_right[0] # 0
    /\ n_back[0] = 1
    /\ crit_cols.pos = crit_cols.end

\* C4: marginal correctness.  After init on a node rectangle, for every row
\* i and column j of the node y_row_sums[i] = sum over the node's columns of
\* w_j * Y[i,j], y_col_sums[j] = sum over the node's rows of w_i * Y[i,j],
\* sum_total = sum of w_i * w_j * Y[i,j] and sq_sum_total = sum of
\* w_i * w_j * Y[i,j]^2 over the rectangle (weights 1 when absent); for the
\* unit-weight 3 x 3 example the row sums are [6, 15, 24], the column sums
\* [12, 15, 18], sum_total 45 and sq_sum_total 285.
C4_MarginalCorrectness ==
    Inited(gso) =>
        /\ \A i \in NodeRows(gso) :
              gso.y_row_sums[i] =
                SumOver([j \in NodeCols(gso) |-> ColW(j) * data.y[i][j]], NodeCols(gso))
        /\ \A j \in NodeCols(gso) :
              gso.y_col_sums[j] =
                SumOver([i \in NodeRows(gso) |-> RowW(i) * data.y[i][j]], NodeRows(gso))
        /\ gso.sum_total = BlockSum(NodeRows(gso), NodeCols(gso))
        /\ gso.sq_sum_total = BlockSqSum(NodeRows(gso), NodeCols(gso))
        /\ LitRoot =>
              /\ gso.y_row_sums = [i \in 0..2 |-> IF i = 0 THEN 6 ELSE IF i = 1 THEN 15 ELSE 24]
              /\ gso.y_col_sums = [j \in 0..2 |-> IF j = 0 THEN 12 ELSE IF j = 1 THEN 15 ELSE 18]
              /\ gso.sum_total = 45
              /\ gso.sq_sum_total = 285

\* a weighted child node with permuted indices, reached from a buffer that
\* held garbage
C4_Witness ==
    /\ Inited(gso) /\ depth = 1
    /\ ~data.row_weights.none /\ ~data.col_weights.none
    /\ gso.n_node_cols = 2 /\ gso.n_node_rows = 1
    /\ gso.row_indices[0] # 0
    /\ gso.sum_total # 0

\* C5: the GSO node impurity is the 2D variance form: after init,
\* node_impurity() = sq_sum_total / W - (sum_total / W)^2 with
\* W = weighted_n_node_rows * weighted_n_node_cols, the sums being those of
\* the node rectangle; for the unit-weight 3 x 3 example it is 20/3.
C5_NodeImpurity ==
    Inited(gso) =>
        LET W == BlockWeight(NodeRows(gso), NodeCols(gso))
            mean == RDiv(R(BlockSum(NodeRows(gso), NodeCols(gso))), R(W))
        IN  /\ W = gso.weighted_n_node_rows * gso.weighted_n_node_cols
            /\ GSO_node_impurity(gso) =
                 RSub(RDiv(R(BlockSqSum(NodeRows(gso), NodeCols(gso))), R(W)),
                      RMul(mean, mean))
            /\ LitRoot => GSO_node_impurity(gso) = <<20, 3>>

\* the root node of the 3 x 3 example, initialised from index arrays that
\* are not the identity
C5_Witness ==
    /\ LitRoot
    /\ gso.row_indices[0] # 0 /\ gso.col_indices[0] # 0
    /\ GSO_node_impurity(gso) = <<20, 3>>

\* the state a fresh criterion reaches by init() on the current node when
\* the Builder's index arrays are ri and ci
AltGSO(ri, ci) ==
    GSO_init(GSO_new(data.n_rows, data.n_cols, 0), data, ri, ci, gso.start, gso.end)

\* the children impurity along axis of such a criterion g after reset() and
\* update(pos)
AltChildrenImpurity(g, axis, pos) ==
    LET c0 == IF axis = 0 THEN GSO_init_rows(g, RC_new(1, data.n_rows))
              ELSE GSO_init_cols(g, RC_new(1, data.n_cols))
        c == RC_update(c0, AxisY(g, axis), AxisWeights(data, axis),
                       AxisIndices(g, axis), pos)
    IN  GSO_children_impurity(g, data, c, axis)

\* the other index arrays the Builder may hold: one axis permuted in any
\* way, or both axes reversed
AltOrders ==
    {Order(ri, gso.col_indices) : ri \in Perms(data.n_rows)}
    \cup {Order(gso.row_indices, ci) : ci \in Perms(data.n_cols)}
    \cup {Order([p \in 0..(data.n_rows - 1) |-> gso.row_indices[data.n_rows - 1 - p]],
                [q \in 0..(data.n_cols - 1) |-> gso.col_indices[data.n_cols - 1 - q]])}

\* the entities left of the split position of axis under the index array idx
LeftSet(idx, axis) == {idx[p] : p \in gso.start[axis]..(AxisCriterion(axis).pos - 1)}

\* C6: permutation invariance.  Permuting the entries of row_indices and/or
\* col_indices inside the node range (the weights stay attached to their
\* entities) changes neither node_impurity() nor node_value(), nor the
\* children_impurity() of either axis when the same set of entities is in
\* the left partition.
C6_PermutationInvariance ==
    Inited(gso) =>
        \A o \in AltOrders :
            LET ri == o.row_indices
                ci == o.col_indices
                g == AltGSO(ri, ci)
            IN  ( /\ {ri[p] : p \in RowRange(gso.start, gso.end)} = NodeRows(gso)
                  /\ {ci[q] : q \in ColRange(gso.start, gso.end)} = NodeCols(gso) )
                =>
                /\ GSO_node_impurity(g) = GSO_node_impurity(gso)
                /\ GSO_node_value(g) = GSO_node_value(gso)
                /\ \A axis \in {0, 1} :
                      ( /\ SweepOk(axis)
                        /\ LeftSet(IF axis = 0 THEN ri ELSE ci, axis)
                             = LeftSet(AxisIndices(gso, axis), axis) )
                      => AltChildrenImpurity(g, axis, AxisCriterion(axis).pos)
                           = GSO_children_impurity(gso, data, AxisCriterion(axis), axis)

\* a weighted root node whose rows are split two against one, so that
\* another order of the rows has the same rows on the left, and whose
\* children impurities are finite and differ
C6_Witness ==
    /\ Inited(gso) /\ depth = 0
    /\ ~data.row_weights.none /\ ~data.col_weights.none
    /\ SweepOk(0) /\ crit_rows.pos = crit_rows.start + 2
    /\ \E o \in AltOrders :
          /\ o.row_indices # gso.row_indices
          /\ LeftSet(o.row_indices, 0) = LeftSet(gso.row_indices, 0)
    /\ LET ci == GSO_children_impurity(gso, data, crit_rows, 0)
       IN  ~IsNaN(ci.left) /\ ~IsNaN(ci.right) /\ ci.left # ci.right

(***************************************************************************)
(* Properties of the semi-supervised (SS) machine.                         *)
(***************************************************************************)
\* the samples of the node the composite criterion is bound to
SSNode == {ssin.samples[p] : p \in ss.start..(ss.end - 1)}

SampleW(i) == WeightOf(ssin.sample_weight, i)

\* the weighted variance over the samples I of the columns lo .. hi-1 of
\* the stacked matrix, averaged over the columns, by its definition:
\* sum of w * (x - mean)^2 over the total weight
ColsVar(I, lo, hi) ==
    LET W == SumOver([i \in I |-> SampleW(i)], I)
        S == [k \in lo..(hi - 1) |-> SumOver([i \in I |-> SampleW(i) * ssin.z[i][k]], I)]
        dev == [k \in lo..(hi - 1) |->
                  SumOver([i \in I |->
                             SampleW(i) * (ssin.z[i][k] * W - S[k]) * (ssin.z[i][k] * W - S[k])],
                          I)]
    IN  Norm(SumOver(dev, lo..(hi - 1)), W * W * W * (hi - lo))

\* sup * s + (1 - sup) * u for sup = n / d, over the common denominator
Blend(sup, s, u) ==
    RDiv(RAdd(RMul(R(sup[1]), s), RMul(R(sup[2] - sup[1]), u)), R(sup[2]))

\* the last two calls made on the composite criterion
LastCalls(first, second) == Len(calls) = 2 /\ calls[1] = first /\ calls[2] = second

\* C2: reverse-reset symmetry.  On any initialised node, reset() followed
\* by update(end) leaves both sub-criteria with the sum_left,
\* weighted_n_left and pos that reverse_reset() gives: the totals of the
\* node, and end.
C2_ReverseResetSymmetry ==
    ( /\ SSInited(ss)
      /\ LastCalls(Call("reset", 0), Call("update", 0))
      /\ ss.pos = ss.end )
    =>
    /\ \A c \in {ss.supervised_criterion, ss.unsupervised_criterion} :
          /\ c.sum_left = RC_reverse_reset(c).sum_left
          /\ c.weighted_n_left = RC_reverse_reset(c).weighted_n_left
          /\ c.pos = RC_reverse_reset(c).pos
          /\ c.pos = ss.end
          /\ c.weighted_n_left = SumOver([i \in SSNode |-> SampleW(i)], SSNode)
    /\ \A k \in Outputs(ss.supervised_criterion) :
          ss.supervised_criterion.sum_left[k] =
            SumOver([i \in SSNode |-> SampleW(i) * ssin.z[i][ss.y.lo + k]], SSNode)
    /\ \A k \in Outputs(ss.unsupervised_criterion) :
          ss.unsupervised_criterion.sum_left[k] =
            SumOver([i \in SSNode |-> SampleW(i) * ssin.z[i][ss.X.lo + k]], SSNode)

\* a weighted child node of two samples on which reset() and then
\* update(end) have just been called
C2_Witness ==
    /\ SSInited(ss) /\ ss_depth = 1
    /\ ss.n_node_samples = 2
    /\ ~ssin.sample_weight.none
    /\ LastCalls(Call("reset", 0), Call("update", 0))
    /\ ss.pos = ss.end
    /\ ss.supervised_criterion.sum_left[0] # 0
    /\ ss.unsupervised_criterion.sum_left[0] # 0

\* C3: blend linearity.  For every supervision weight sup in [0, 1],
\* node_impurity() of the composite criterion is sup * s + (1 - sup) * u,
\* s and u being the node impurities of the supervised and of the
\* unsupervised sub-criterion (the variances of the node's targets and of
\* its features); at sup = 0 it is exactly u and at sup = 1 exactly s.
C3_BlendLinearity ==
    SSInited(ss) =>
        LET s == RC_node_impurity(ss.supervised_criterion)
            u == RC_node_impurity(ss.unsupervised_criterion)
        IN  /\ s = ColsVar(SSNode, ss.y.lo, ss.y.hi)
            /\ u = ColsVar(SSNode, ss.X.lo, ss.X.hi)
            /\ SS_node_impurity(ss) = Blend(ss.supervision, s, u)
            /\ ss.supervision = R(0) => SS_node_impurity(ss) = u
            /\ ss.supervision = R(1) => SS_node_impurity(ss) = s

\* a weighted node, a supervision weight strictly inside (0, 1), and two
\* sub-impurities that differ
C3_Witness ==
    /\ SSInited(ss)
    /\ ~ssin.sample_weight.none
    /\ ss.supervision # R(0) /\ ss.supervision # R(1)
    /\ RC_node_impurity(ss.supervised_criterion) # R(0)
    /\ RC_node_impurity(ss.unsupervised_criterion) # R(0)
    /\ RC_node_impurity(ss.supervised_criterion)
         # RC_node_impurity(ss.unsupervised_criterion)
    /\ SS_node_impurity(ss) # RC_node_impurity(ss.supervised_criterion)

\* the impurity arguments a splitter may pass to impurity_improvement()
ImpurityArgs == {R(0), R(1), R(7)}

\* set_feature(0) and then set_feature(1) have just been called on a node
RecomputedForColumn1 ==
    /\ ss.single /\ SSInited(ss)
    /\ LastCalls(Call("set_feature", 0), Call("set_feature", 1))

\* C7: single-feature recompute.  On a node, set_feature(0) followed by
\* set_feature(1) leaves current_node_impurity =
\* sup * supervised impurity + (1 - sup) * variance of column 1 over the
\* node, and an impurity_improvement() call made right afterwards uses that
\* value as impurity_parent, whatever impurity_parent it is given.
C7_SingleFeatureRecompute ==
    RecomputedForColumn1 =>
        LET refreshed == Blend(ss.supervision,
                               ColsVar(SSNode, ss.y.lo, ss.y.hi),
                               ColsVar(SSNode, ss.full_X.lo + 1, ss.full_X.lo + 2))
        IN  /\ ss.current_feature = 1
            /\ ss.current_node_impurity = refreshed
            /\ \A parent \in ImpurityArgs, left \in ImpurityArgs, right \in ImpurityArgs :
                  SFSS_impurity_improvement(ss, parent, left, right)
                    = SS_impurity_improvement(ss, refreshed, left, right)

\* a weighted node on which the two columns have different variances, so
\* that the value cached for column 0 and the argument both differ from
\* the refreshed value
C7_Witness ==
    /\ RecomputedForColumn1
    /\ ~ssin.sample_weight.none
    /\ ss.supervision # R(1)
    /\ ColsVar(SSNode, ss.full_X.lo, ss.full_X.lo + 1)
         # ColsVar(SSNode, ss.full_X.lo + 1, ss.full_X.lo + 2)
    /\ ss.current_node_impurity # R(7)
    /\ SS_impurity_improvement(ss, R(7), R(1), R(0))
         # SFSS_impurity_improvement(ss, R(7), R(1), R(0))

(***************************************************************************)
(* Properties of the axis machine.                                         *)
(***************************************************************************)
\* C8: invalid axis.  Every axis-parameterised method (children_impurity,
\* impurity_improvement) of every bipartite criterion variant, called with
\* axis = 2, fails with the invalid-axis error and leaves all criterion
\* state unchanged.
C8_InvalidAxis ==
    [][(axis_call' # axis_call /\ axis_call'.axis = 2)
          => ( /\ axis_call'.outcome.error = "InvalidAxisError"
               /\ UNCHANGED <<gsoVars, ssVars>> )]_vars

(***************************************************************************)
(* Properties of the constructor machine.                                  *)
(***************************************************************************)
\* a double inside [0, 1]
InUnitInterval(x) == x[2] > 0 /\ 0 <= x[1] /\ x[1] <= x[2]

\* the criterion __init__ goes on with for one of the two roles
Effective(x) == IF x.kind = "none" THEN ctor.args.criterion ELSE x

\* C9: constructing a composite criterion with a supervision weight outside
\* [0, 1] fails with ValueError and produces no criterion; every weight
\* inside [0, 1], 0 and 1 included, passes this check.
C9_SupervisionRange ==
    ctor.called =>
        LET a == ctor.args
            r == ctor.result
        IN  /\ ~InUnitInterval(a.supervision) =>
                  /\ r.error = "ValueError"
                  /\ r.message = "supervision must be in [0, 1] interval."
                  /\ r = CtorRaised(r.message)
            /\ InUnitInterval(a.supervision) =>
                  /\ r.message # "supervision must be in [0, 1] interval."
                  /\ ( a.supervised_criterion.kind = "instance"
                       /\ a.unsupervised_criterion.kind = "instance" )
                     => ( r.error = "" /\ r.obj.supervision = a.supervision )

\* a call with two criterion instances and a supervision weight above 1,
\* which raised
C9_Witness ==
    /\ ctor.called
    /\ ctor.args.supervision[1] > ctor.args.supervision[2]
    /\ ctor.args.supervised_criterion.kind = "instance"
    /\ ctor.args.unsupervised_criterion.kind = "instance"
    /\ ctor.result.error = "ValueError"

\* C10: with a valid supervision weight, construction fails with ValueError
\* exactly when no shared criterion is given and the supervised or the
\* unsupervised one is missing, or when the supervised criterion is a class
\* and n_outputs or n_samples is missing, or when the unsupervised
\* criterion is a class and n_features or n_samples is missing; with two
\* criterion instances no shape parameter is required.
C10_ConstructorShape ==
    (ctor.called /\ InUnitInterval(ctor.args.supervision)) =>
        LET a == ctor.args
            r == ctor.result
            missing == /\ a.criterion.kind = "none"
                       /\ \/ a.supervised_criterion.kind = "none"
                          \/ a.unsupervised_criterion.kind = "none"
            noSupShape == /\ Effective(a.supervised_criterion).kind = "class"
                          /\ (a.n_outputs = 0 \/ a.n_samples = 0)
            noUnsupShape == /\ Effective(a.unsupervised_criterion).kind = "class"
                            /\ (a.n_features = 0 \/ a.n_samples = 0)
        IN  /\ (r.error = "ValueError") <=> (missing \/ noSupShape \/ noUnsupShape)
            /\ ( a.supervised_criterion.kind = "instance"
                 /\ a.unsupervised_criterion.kind = "instance" )
               => ( /\ r.error = ""
                    /\ r.obj.supervised_criterion = a.supervised_criterion.obj
                    /\ r.obj.unsupervised_criterion = a.unsupervised_criterion.obj )

\* a call that gives the supervised criterion as a class with n_outputs
\* but without n_samples, and the unsupervised one as an instance
C10_Witness ==
    /\ ctor.called
    /\ InUnitInterval(ctor.args.supervision)
    /\ ctor.args.criterion.kind = "none"
    /\ ctor.args.supervised_criterion.kind = "class"
    /\ ctor.args.unsupervised_criterion.kind = "instance"
    /\ ctor.args.n_outputs > 0 /\ ctor.args.n_samples = 0
    /\ ctor.result.error = "ValueError"

LastForwarded ==
    /\ Len(calls) > 0
    /\ calls[Len(calls)].name \in {"reset", "reverse_reset", "update"}

\* both sub-criteria stand where the last call leaves a criterion
BothApplied ==
    LET name == calls[Len(calls)].name
        s == ss.supervised_criterion
        u == ss.unsupervised_criterion
        AtStart(c) == c.pos = c.start /\ c.weighted_n_left = 0
                        /\ c.weighted_n_right = c.weighted_n_node_samples
        AtEnd(c) == c.pos = c.end /\ c.weighted_n_right = 0
                        /\ c.weighted_n_left = c.weighted_n_node_samples
    IN  /\ s.pos = u.pos
        /\ name = "reset" => AtStart(s) /\ AtStart(u)
        /\ name = "reverse_reset" => AtEnd(s) /\ AtEnd(u)
        /\ name = "update" => s.pos = ss.pos

\* C13: reset, reverse_reset and update are forwarded to both sub-criteria:
\* when the call succeeds the same operation has been applied to both (and
\* they stand at the same pos), and the composite call fails whenever the
\* call of either sub-criterion fails.
C13_ForwardedToBoth ==
    LastForwarded =>
        /\ ss_rc.failed # {} => ss_rc.ret = -1
        /\ ss_rc.ret = 0 => BothApplied

\* an update whose unsupervised call failed after the supervised criterion
\* had moved
C13_Witness ==
    /\ LastForwarded
    /\ calls[Len(calls)].name = "update"
    /\ ss_rc.failed = {"unsupervised"}
    /\ ss_rc.ret = -1
    /\ ss.supervised_criterion.pos # ss.unsupervised_criterion.pos

(***************************************************************************)
(* Properties of the composite criterion's init and evaluation methods.    *)
(***************************************************************************)
\* the last call made on ss
LastCall == calls[Len(calls)]

\* the weight of the samples I, and their weighted sum in column k of the
\* stacked matrix
SamplesWeight(I) == SumOver([i \in I |-> SampleW(i)], I)

ColumnSum(I, k) == SumOver([i \in I |-> SampleW(i) * ssin.z[i][k]], I)

\* the sub-criterion c is initialised on the node of ss over the columns
\* lo .. hi-1 of the stacked matrix
InitialisedOver(c, lo, hi) ==
    /\ c.start = ss.start /\ c.end = ss.end /\ c.pos = ss.start
    /\ c.n_node_samples = ss.end - ss.start
    /\ c.weighted_n_samples = TotalWeight(ssin.sample_weight, ssin.n_samples)
    /\ c.weighted_n_node_samples = SamplesWeight(SSNode)
    /\ c.n_outputs = hi - lo
    /\ \A k \in 0..(hi - lo - 1) : c.sum_total[k] = ColumnSum(SSNode, lo + k)

\* C12: init with the stacked matrix [features | targets] passes the first
\* n_features columns to the unsupervised criterion and the remaining ones
\* to the supervised criterion, and both are initialised with the same
\* weights, weighted_n_samples, index array, start and end.
C12_InitUnstacks ==
    (Len(calls) > 0 /\ LastCall.name = "init" /\ ~ss.single) =>
        /\ ss.X = Cols(0, ss.n_features)
        /\ ss.y = Cols(ss.n_features, ssin.n_cols)
        /\ InitialisedOver(ss.unsupervised_criterion, 0, ss.n_features)
        /\ InitialisedOver(ss.supervised_criterion, ss.n_features, ssin.n_cols)

\* init on a child node of the weighted input, whose feature and target
\* columns have different sums
C12_Witness ==
    /\ Len(calls) > 0 /\ LastCall.name = "init" /\ ~ss.single
    /\ ss.start > 0
    /\ ssin.sample_weight = SampleWeightsSmall
    /\ ss.n_features = 2
    /\ ss.supervised_criterion.sum_total[0] # ss.unsupervised_criterion.sum_total[0]
    /\ ss.supervised_criterion.sum_total[0] # ss.unsupervised_criterion.sum_total[1]

\* the children impurities of the two sub-criteria
SupChildren ==
    RC_children_impurity(ss.supervised_criterion, SupY(ss, ssin),
                         ss.sample_weight, ssin.samples)

UnsupChildren ==
    RC_children_impurity(ss.unsupervised_criterion, UnsupY(ss, ssin),
                         ss.sample_weight, ssin.samples)

\* both sub-criteria stand at a split strictly inside the node
SplitInside ==
    /\ SSInited(ss)
    /\ ss.supervised_criterion.pos = ss.unsupervised_criterion.pos
    /\ ss.start < ss.supervised_criterion.pos
    /\ ss.supervised_criterion.pos < ss.end

\* the samples on the two sides of the sub-criteria's split
SSLeft == {ssin.samples[p] : p \in ss.start..(ss.supervised_criterion.pos - 1)}

SSRight == {ssin.samples[p] : p \in ss.supervised_criterion.pos..(ss.end - 1)}

\* C14: children_impurity returns, for each child, the blend
\* sup * s + (1 - sup) * u of the two sub-criteria's impurities of that
\* child; when no update moved backwards since the statistics were last
\* recomputed these are the variances of the child's target and feature
\* columns.
C14_ChildrenImpurityBlend ==
    SplitInside =>
        LET ci == SS_children_impurity(ss, ssin)
        IN  /\ ci.left = Blend(ss.supervision, SupChildren.left, UnsupChildren.left)
            /\ ci.right = Blend(ss.supervision, SupChildren.right, UnsupChildren.right)
            /\ ss_back = Pair(0, 0) =>
                 /\ ci.left = Blend(ss.supervision,
                                    ColsVar(SSLeft, ss.y.lo, ss.y.hi),
                                    ColsVar(SSLeft, ss.X.lo, ss.X.hi))
                 /\ ci.right = Blend(ss.supervision,
                                     ColsVar(SSRight, ss.y.lo, ss.y.hi),
                                     ColsVar(SSRight, ss.X.lo, ss.X.hi))

\* a split inside a node with a supervision strictly between 0 and 1 where
\* the two sub-criteria disagree on the two-sample child
C14_Witness ==
    /\ SplitInside
    /\ LastCall.name = "update"
    /\ ss_back = Pair(0, 0)
    /\ ss.supervision \notin {R(0), R(1)}
    /\ SupChildren.right # UnsupChildren.right
    /\ UnsupChildren.left # UnsupChildren.right
    /\ SupChildren.right # R(0)
    /\ SS_children_impurity(ss, ssin).left # SS_children_impurity(ss, ssin).right

\* the improvement each sub-criterion computes from the same arguments
SupImprovement(parent, left, right) ==
    RC_impurity_improvement(ss.supervised_criterion, parent, left, right)

UnsupImprovement(parent, left, right) ==
    RC_impurity_improvement(ss.unsupervised_criterion, parent, left, right)

\* the two sub-criteria hold the same weights
SameWeights ==
    LET s == ss.supervised_criterion
        u == ss.unsupervised_criterion
    IN  /\ s.weighted_n_samples = u.weighted_n_samples
        /\ s.weighted_n_node_samples = u.weighted_n_node_samples
        /\ s.weighted_n_left = u.weighted_n_left
        /\ s.weighted_n_right = u.weighted_n_right

\* the (parent, left, right) impurities the improvement is asked for
ImpurityTriples == {<<R(7), R(1), R(0)>>, <<R(1), R(0), R(7)>>}

\* C15: impurity_improvement calls each sub-criterion's impurity_improvement
\* with the same three arguments and returns sup * s_imp + (1 - sup) * u_imp;
\* when both sub-criteria hold the same weighted_n_* values the result is
\* the improvement of either of them, whatever sup is.
C15_ImprovementBlend ==
    SSInited(ss) =>
        \A args \in ImpurityTriples :
            LET imp == SS_impurity_improvement(ss, args[1], args[2], args[3])
                s_imp == SupImprovement(args[1], args[2], args[3])
                u_imp == UnsupImprovement(args[1], args[2], args[3])
            IN  /\ imp = Blend(ss.supervision, s_imp, u_imp)
                /\ SameWeights => imp = s_imp /\ imp = u_imp

\* sub-criteria with different weights on the left (the unsupervised one
\* rebound by set_feature), a supervision strictly between 0 and 1, and
\* three improvements that all differ
C15_Witness ==
    /\ SSInited(ss)
    /\ ~SameWeights
    /\ ss.supervision \notin {R(0), R(1)}
    /\ LET imp == SS_impurity_improvement(ss, R(7), R(1), R(0))
           s_imp == SupImprovement(R(7), R(1), R(0))
           u_imp == UnsupImprovement(R(7), R(1), R(0))
       IN  imp # s_imp /\ imp # u_imp /\ ~IsNaN(imp)

\* the weighted mean over the node of each target column of the stacked
\* matrix
TargetMeans ==
    [k \in 0..(ss.n_outputs - 1) |->
        Norm(ColumnSum(SSNode, ssin.n_cols - ss.n_outputs + k), SamplesWeight(SSNode))]

\* C16: node_value writes exactly the supervised sub-criterion's node value,
\* the weighted mean of the targets over the node: it does not depend on
\* the supervision, on the unsupervised criterion's state or on the feature
\* columns.
C16_NodeValueSupervised ==
    SSInited(ss) =>
        /\ SS_node_value(ss) = RC_node_value(ss.supervised_criterion)
        /\ SS_node_value(ss) = TargetMeans

\* a node on which the means of the feature columns differ from the mean of
\* the target column, under a supervision below 1
C16_Witness ==
    /\ SSInited(ss)
    /\ ss.supervision # R(1)
    /\ Len(calls) > 0 /\ LastCall.name = "update"
    /\ \A k \in 0..(ss.unsupervised_criterion.n_outputs - 1) :
          RC_node_value(ss.unsupervised_criterion)[k] # SS_node_value(ss)[0]

(***************************************************************************)
(* Properties of the GSO criterion's split evaluation.                     *)
(***************************************************************************)
\* the entities of the node on the other axis
OtherNode(axis) == IF axis = 0 THEN NodeCols(gso) ELSE NodeRows(gso)

\* all the entities of the other axis
OtherAll(axis) == IF axis = 0 THEN 0..(data.n_cols - 1) ELSE 0..(data.n_rows - 1)

\* the entities of the node on axis left and right of the axis criterion's
\* split position
AxisLeft(axis) == LeftSet(AxisIndices(gso, axis), axis)

AxisRight(axis) ==
    {AxisIndices(gso, axis)[p] : p \in AxisCriterion(axis).pos..(gso.end[axis] - 1)}

\* the 2D weight of the block of the entities I of axis by the entities J of
\* the other axis
AxisBlockWeight(axis, I, J) == IF axis = 0 THEN BlockWeight(I, J) ELSE BlockWeight(J, I)

\* the total weight of the entities J of the other axis
OtherWeight(axis, J) ==
    IF axis = 0 THEN SumOver([j \in J |-> ColW(j)], J)
    ELSE SumOver([i \in J |-> RowW(i)], J)

\* C17: GSO impurity_improvement(parent, left, right, axis) is the axis
\* criterion's own 1D improvement times
\* weighted_n_node_<other axis> / weighted_n_<other axis>, which makes it
\* (weighted_n_node_samples / weighted_n_samples)
\*   * (parent - (wL * left + wR * right) / (wL + wR))
\* with the 2D weights of the node, of the whole matrix and of the two
\* child blocks.
C17_ImprovementScaled ==
    Inited(gso) =>
        \A axis \in {0, 1}, args \in ImpurityTriples :
            LET c == AxisCriterion(axis)
                imp == GSO_impurity_improvement(gso, c, args[1], args[2], args[3], axis)
                imp1d == RC_impurity_improvement(c, args[1], args[2], args[3])
                wN == BlockWeight(NodeRows(gso), NodeCols(gso))
                wAll == BlockWeight(0..(data.n_rows - 1), 0..(data.n_cols - 1))
                wL == AxisBlockWeight(axis, AxisLeft(axis), OtherNode(axis))
                wR == AxisBlockWeight(axis, AxisRight(axis), OtherNode(axis))
            IN  /\ imp = RDiv(RMul(imp1d, R(OtherWeight(axis, OtherNode(axis)))),
                              R(OtherWeight(axis, OtherAll(axis))))
                /\ SweepOk(axis) =>
                     imp = RMul(Norm(wN, wAll),
                                RSub(args[1],
                                     RDiv(RAdd(RMul(R(wL), args[2]), RMul(R(wR), args[3])),
                                          R(wL + wR))))

\* a weighted child node that holds only part of the columns, the row
\* criterion strictly inside it
C17_Witness ==
    /\ Inited(gso) /\ depth = 1
    /\ ~data.row_weights.none /\ ~data.col_weights.none
    /\ NodeCols(gso) # 0..(data.n_cols - 1)
    /\ SweepOk(0)
    /\ crit_rows.start < crit_rows.pos /\ crit_rows.pos < crit_rows.end
    /\ LET imp == GSO_impurity_improvement(gso, crit_rows, R(7), R(1), R(0), 0)
       IN  /\ ~IsNaN(imp)
           /\ imp # RC_impurity_improvement(crit_rows, R(7), R(1), R(0))

\* C18 as stated: FriedmanGSO.impurity_improvement(parent, left, right,
\* axis) returns the axis criterion's improvement without any other-axis
\* factor.
C18_FriedmanOmitsScaling ==
    Inited(gso) =>
        \A axis \in {0, 1}, args \in ImpurityTriples :
            FriedmanGSO_impurity_improvement(gso, AxisCriterion(axis),
                                             args[1], args[2], args[3], axis)
              = RC_impurity_improvement(AxisCriterion(axis), args[1], args[2], args[3])

\* C18: FriedmanGSO overrides impurity_improvement only, and there it
\* returns the axis criterion's improvement divided by
\* weighted_n_node_<other axis>, where SquaredErrorGSO multiplies it by
\* weighted_n_node_<other axis> / weighted_n_<other axis>: the two results
\* differ by the factor weighted_n_node_<other axis>^2 / weighted_n_<other axis>.
C18_FriedmanDividesByOtherNodeWeight ==
    Inited(gso) =>
        \A axis \in {0, 1}, args \in ImpurityTriples :
            LET c == AxisCriterion(axis)
                fimp == FriedmanGSO_impurity_improvement(gso, c, args[1], args[2],
                                                         args[3], axis)
                imp1d == RC_impurity_improvement(c, args[1], args[2], args[3])
                wNodeOther == OtherWeight(axis, OtherNode(axis))
                wAllOther == OtherWeight(axis, OtherAll(axis))
            IN  /\ fimp = RDiv(imp1d, R(wNodeOther))
                /\ GSO_impurity_improvement(gso, c, args[1], args[2], args[3], axis)
                     = RMul(fimp, Norm(wNodeOther * wNodeOther, wAllOther))

\* a weighted node whose columns weigh more than 1 together, the row
\* criterion strictly inside it with an improvement other than 0
C18_Witness ==
    /\ Inited(gso)
    /\ ~data.row_weights.none /\ ~data.col_weights.none
    /\ OtherWeight(0, OtherNode(0)) > 1
    /\ crit_rows.start < crit_rows.pos /\ crit_rows.pos < crit_rows.end
    /\ LET imp1d == RC_impurity_improvement(crit_rows, R(7), R(1), R(0))
           fimp == FriedmanGSO_impurity_improvement(gso, crit_rows, R(7), R(1), R(0), 0)
       IN  ~IsNaN(fimp) /\ imp1d # R(0) /\ fimp # imp1d

\* the block of the entities I of axis by the entities J of the other axis,
\* as a pair of its rows and its columns
AxisBlock(axis, I, J) == IF axis = 0 THEN Pair(I, J) ELSE Pair(J, I)

\* the weighted variance of Y over the block b:
\* (sum of wi*wj*Y^2 - (sum of wi*wj*Y)^2 / W) / W
BlockVariance(b) ==
    LET W == BlockWeight(b[0], b[1])
        S == BlockSum(b[0], b[1])
    IN  RDiv(RSub(R(BlockSqSum(b[0], b[1])), RDiv(R(S * S), R(W))), R(W))

\* C19: for either axis and a split position strictly inside the node,
\* children_impurity returns for the left child the weighted 2D variance of
\* Y over the block [start, pos) of the axis by the node's range of the
\* other axis, and for the right child that over [pos, end), with W the
\* child's axis weight times the other axis's node weight.
C19_ChildrenBlockVariance ==
    Inited(gso) =>
        \A axis \in {0, 1} :
            LET c == AxisCriterion(axis)
                ci == GSO_children_impurity(gso, data, c, axis)
            IN  (SweepOk(axis) /\ gso.start[axis] < c.pos /\ c.pos < gso.end[axis]) =>
                   /\ ci.left = BlockVariance(AxisBlock(axis, AxisLeft(axis), OtherNode(axis)))
                   /\ ci.right = BlockVariance(AxisBlock(axis, AxisRight(axis), OtherNode(axis)))

\* a weighted node split along its columns, the two child blocks having
\* different variances other than 0
C19_Witness ==
    /\ Inited(gso)
    /\ ~data.row_weights.none /\ ~data.col_weights.none
    /\ SweepOk(1)
    /\ gso.start[1] < crit_cols.pos /\ crit_cols.pos < gso.end[1]
    /\ gso.n_node_rows > 1
    /\ LET ci == GSO_children_impurity(gso, data, crit_cols, 1)
       IN  ci.left # R(0) /\ ci.right # R(0) /\ ci.left # ci.right

(***************************************************************************)
(* Properties of the GMO constructor.                                      *)
(***************************************************************************)
\* C20: constructing a GMO with exactly one of the row criterion and the
\* column criterion a classification criterion, whichever of the two it is,
\* fails with a configuration error.
C20_MixedCriteriaRejected ==
    ( /\ ctor.called
      /\ ctor.args.criterion_rows.classification
           # ctor.args.criterion_cols.classification )
    => ctor.result.error # ""

\* node_value() and node_impurity() have been called on a GMO
GMOEvaluated == ctor.called /\ ctor.eval.done

\* the slots of a written region
Slots(region) == region.lo..(region.hi - 1)

\* C21: GMO.node_value(dest) writes the column-axis prototype at offset 0
\* and the row-axis prototype at offset n_outputs_cols * max_n_classes; the
\* two regions do not overlap and together form one vector of
\* n_outputs = n_outputs_rows + n_outputs_cols outputs; GMO.node_impurity()
\* returns the row-axis criterion's node impurity.
C21_NodeValueLayout ==
    GMOEvaluated =>
        LET o == ctor.result.obj
            nv == ctor.eval.node_value
        IN  /\ nv.cols.lo = 0
            /\ nv.rows.lo = o.n_outputs_cols * o.max_n_classes
            /\ Slots(nv.cols) \cap Slots(nv.rows) = {}
            /\ nv.cols.hi = nv.rows.lo
            /\ o.n_outputs = o.n_outputs_rows + o.n_outputs_cols
            /\ ctor.eval.node_impurity = ctor.eval.impurity.rows

\* C21 for the GMOs whose two criteria are of the same kind
C21_NodeValueLayoutSameKind ==
    ( /\ GMOEvaluated
      /\ ctor.args.criterion_rows.classification
           = ctor.args.criterion_cols.classification )
    => C21_NodeValueLayout

(***************************************************************************)
(* Properties of the composite-aware bipartite wrapper.                    *)
(***************************************************************************)
\* (n_r*(1-sup_r)*u_rows + n_c*(1-sup_c)*u_cols)/(n_r+n_c) + s*(sup_r+sup_c)/2
\* over one denominator, sup_r = a/b and sup_c = c/d
CombinedImpurity(n_r, n_c, sup_r, sup_c, u_rows, u_cols, s) ==
    LET a == sup_r[1]
        b == sup_r[2]
        c == sup_c[1]
        d == sup_c[2]
        num == RAdd(RAdd(RMul(R(2 * n_r * (b - a) * d), u_rows),
                         RMul(R(2 * n_c * (d - c) * b), u_cols)),
                    RMul(R((n_r + n_c) * (a * d + c * b)), s))
    IN  RDiv(num, R(2 * (n_r + n_c) * b * d))

\* C22: the wrapper's combined impurity is
\* (n_r*(1-sup_r)*u_rows + n_c*(1-sup_c)*u_cols)/(n_r+n_c) + s*(sup_r+sup_c)/2,
\* and node_impurity() applies it to the two unsupervised node impurities
\* and the plain supervised node impurity.
C22_CombinedImpurity ==
    wrap.called \in {"ss_impurity", "node_impurity"} =>
        wrap.result = CombinedImpurity(wrap.rows.n_features, wrap.cols.n_features,
                                       wrap.rows.supervision, wrap.cols.supervision,
                                       wrap.args.u_rows, wrap.args.u_cols, wrap.args.s)

\* node_impurity() on axes with different feature counts and different
\* supervisions strictly between 0 and 1, the three impurities all different
C22_Witness ==
    /\ wrap.called = "node_impurity"
    /\ wrap.rows.n_features # wrap.cols.n_features
    /\ wrap.rows.supervision # wrap.cols.supervision
    /\ wrap.rows.supervision \notin {R(0), R(1)}
    /\ wrap.args.u_rows = R(7) /\ wrap.args.u_cols = R(0) /\ wrap.args.s = R(1)
    /\ wrap.result \notin {R(0), R(1), R(7)}

\* ss_impurity was called with three equal impurities
WrapEqualArgs ==
    /\ wrap.called = "ss_impurity"
    /\ wrap.args.u_rows = wrap.args.s /\ wrap.args.u_cols = wrap.args.s

UpdateInSweep ==
    /\ LastCalls(Call("reset", 0), Call("update", 0))
    /\ calls' = <<Call("update", 0), Call("update", 0)>>
    /\ ss_rc'.ret = 0

\* C23: between a reset() and the next reset() / reverse_reset() / init, the
\* pos of the composite criterion and of its sub-criteria only moves
\* forwards: every accepted update(new_pos) has new_pos >= the previous pos.
C23_PosMonotone ==
    [][UpdateInSweep =>
          /\ ss'.pos >= ss.pos
          /\ ss'.supervised_criterion.pos >= ss.supervised_criterion.pos
          /\ ss'.unsupervised_criterion.pos >= ss.unsupervised_criterion.pos]_vars

\* C24: for a single-feature composite criterion reused across nodes, after
\* init on a node the cached current_node_impurity is node_impurity() of
\* that node (its range, its weights, its freshly initialised supervised
\* statistics) for the current feature, never that of the node initialised
\* before.
C24_CachedImpurityOfNode ==
    ( /\ ss.single /\ SSInited(ss) /\ ss_depth > 0
      /\ Len(calls) > 0 /\ LastCall.name = "init" )
    => /\ ss.current_node_impurity = SS_node_impurity(ss)
       /\ ss.current_node_impurity =
            Blend(ss.supervision,
                  ColsVar(SSNode, ss.y.lo, ss.y.hi),
                  ColsVar(SSNode, ss.X.lo, ss.X.hi))

\* the last call is init, reset, reverse_reset or update, and it succeeded
LastPositioned ==
    /\ Len(calls) > 0
    /\ LastCall.name \in {"init", "reset", "reverse_reset", "update"}
    /\ ss_rc.ret = 0

\* C25: after any sequence of init, reset, reverse_reset and successful
\* update calls, the composite's own pos equals the pos of both
\* sub-criteria: start after init or reset, end after reverse_reset,
\* new_pos after update(new_pos).
C25_CompositePos ==
    LastPositioned =>
        /\ ss.pos = ss.supervised_criterion.pos
        /\ ss.pos = ss.unsupervised_criterion.pos
        /\ LastCall.name \in {"init", "reset"} => ss.pos = ss.start
        /\ LastCall.name = "reverse_reset" => ss.pos = ss.end

\* C25 for update: after a successful update the three positions agree
C25_CompositePosAfterUpdate ==
    (LastPositioned /\ LastCall.name = "update") =>
        /\ ss.pos = ss.supervised_criterion.pos
        /\ ss.pos = ss.unsupervised_criterion.pos

\* C26: after any sequence of init, reset, reverse_reset and update calls,
\* the composite's weighted_n_node_samples, weighted_n_left and
\* weighted_n_right equal those of its supervised sub-criterion.
C26_CompositeWeights ==
    LastPositioned =>
        /\ ss.weighted_n_node_samples = ss.supervised_criterion.weighted_n_node_samples
        /\ ss.weighted_n_left = ss.supervised_criterion.weighted_n_left
        /\ ss.weighted_n_right = ss.supervised_criterion.weighted_n_right

\* C26 right after init: the three weights are the supervised criterion's
C26_CompositeWeightsAfterInit ==
    (LastPositioned /\ LastCall.name = "init") =>
        /\ ss.weighted_n_node_samples = ss.supervised_criterion.weighted_n_node_samples
        /\ ss.weighted_n_left = ss.supervised_criterion.weighted_n_left
        /\ ss.weighted_n_right = ss.supervised_criterion.weighted_n_right

\* a freshly constructed bipartite criterion (its buffers holding garbage)
\* after init() on the rectangle the reused criterion is bound to
FreshGSO(garbage) ==
    GSO_init(GSO_new(data.n_rows, data.n_cols, garbage), data,
             gso.row_indices, gso.col_indices, gso.start, gso.end)

\* the position fields and the left sums of two axis criteria agree
SameSweepState(c, f) ==
    /\ c.start = f.start /\ c.end = f.end /\ c.pos = f.pos
    /\ c.sum_left = f.sum_left

\* the reused criterion and its axis criteria are in the state of a fresh
\* criterion initialised on the same rectangle
HistoryFree ==
    \A garbage \in Garbage : \A f \in {FreshGSO(garbage)} :
        /\ gso.sum_total = f.sum_total
        /\ gso.sq_sum_total = f.sq_sum_total
        /\ gso.weighted_n_node_rows = f.weighted_n_node_rows
        /\ gso.weighted_n_node_cols = f.weighted_n_node_cols
        /\ gso.weighted_n_node_samples = f.weighted_n_node_samples
        /\ \A p \in RowRange(gso.start, gso.end) :
              gso.y_row_sums[gso.row_indices[p]] = f.y_row_sums[gso.row_indices[p]]
        /\ \A q \in ColRange(gso.start, gso.end) :
              gso.y_col_sums[gso.col_indices[q]] = f.y_col_sums[gso.col_indices[q]]
        /\ \A c \in {GSO_init_rows(f, RC_new(1, data.n_rows))} :
              SameSweepState(crit_rows, c)
        /\ \A c \in {GSO_init_cols(f, RC_new(1, data.n_cols))} :
              SameSweepState(crit_cols, c)

\* C27: init() of the bipartite criterion is history-independent: after
\* init() on a node rectangle, whatever init() and update() calls came
\* before, the totals, the weighted node counts, the marginal sums of the
\* rectangle's rows and columns, and the start / end / pos / sum_left of both
\* axis criteria are those of a fresh criterion initialised on the rectangle.
C27_InitHistoryIndependent ==
    [][(GSOInit \/ GSODescend) => HistoryFree']_vars

\* init() on a child of the root, after the sweep that chose the split, on a
\* weighted dataset: a marginal sum outside the child still holds the root's
\* value, inside the child everything is as in a fresh criterion
C27_Witness ==
    /\ depth = 1
    /\ ~data.row_weights.none
    /\ crit_rows.pos = crit_rows.start /\ crit_cols.pos = crit_cols.start
    /\ HistoryFree
    /\ \E i \in 0..(data.n_rows - 1) :
          /\ i \notin {gso.row_indices[p] : p \in RowRange(gso.start, gso.end)}
          /\ gso.y_row_sums[i] # FreshGSO(0).y_row_sums[i]

====
